---- MODULE Spec2Model ----
(***************************************************************************)
(* Model of the device communication engine of the Micro-Air EasyTouch     *)
(* integration (micro_air_easytouch/parser.py):                            *)
(*   - send_command callers, the command queue and its worker task,        *)
(*   - the polling loop, the connection health monitor, async_shutdown,    *)
(*   - the shared client handle and the client lock,                       *)
(*   - the status decoder (decrypt).                                       *)
(*                                                                         *)
(* Scheduling is asyncio's: one task runs at a time and a task only gives  *)
(* up control at an await that really suspends.  Every action below is the *)
(* code between two such suspension points.  Waiting times are abstracted: *)
(* a timer may fire at any moment it is armed.                             *)
(***************************************************************************)
EXTENDS Integers, Sequences, FiniteSets, TLC

\* ------------------------------------------------------------------ bounds
MaxCmds == 2        \* number of send_command calls explored
MaxWorkers == 2     \* number of queue-worker tasks that may be created

MaxZoneEntries == 2 \* entries of a Z_sts mapping in the decoder's inputs
MaxListeners == 2   \* subscribed update listeners
MaxFailures == 4    \* failures recorded on one delay entry

Cmds == 1..MaxCmds
Workers == 1..MaxWorkers

\* ------------------------------------------------------------ lock owners
NoTask == 0                 \* the lock is free / no task
PollTask == 0 - 1           \* identity of the polling task as a lock owner

VARIABLES
    queue,          \* _command_queue: the queued commands, head first
    fut,            \* result_future of each command
    ret,            \* the send_command call of each command
    workerTask,     \* _queue_worker_task: the latest worker task, NoTask if None
    wpc,            \* position of each worker task ("new", "new_late":
                    \* created by create_task, its coroutine has not run yet)
    wcmd,           \* command_item of each worker task (0 when unbound)
    wcancel,        \* cancellation requested for a worker task, not yet delivered
    execOrder,      \* commands in the order _execute_command_safely was entered
    lock,           \* owner of _client_lock
    client,         \* _client: "none", "ready" (connected, services known),
                    \* "noserv" (connected, service table empty)
    idleExpired,    \* time.time() - _last_activity_time > _connection_idle_timeout
    hpc,            \* position of the health monitor task
    hcancel,        \* cancellation requested for the health monitor
    ppc,            \* position of the polling task
    pcancel,        \* cancellation requested for the polling task
    pollInProgress, \* _poll_in_progress
    lastPollSuccess,\* _last_poll_success
    spc,            \* position of async_shutdown
    deviceState,    \* _device_state
    dPayload,       \* decoder harness: the payload handed to decrypt
    dResult,        \* decoder harness: outcome of the last decrypt call
    updateListeners,\* _update_listeners: each listener by its behaviour
    dLog,           \* listener bodies run by the last notification, in order
    deviceDelays,   \* hass.data[DOMAIN]["device_delays"][address][operation]
    streak,         \* per entry: failures recorded in a row since it was
                    \* fresh, or Broken once a success touched the entry
    lastSuccess,    \* the success recorded last, with the entry it found
    conn,           \* connection harness: self._client and the links it opened
    call,           \* connection harness: the call in progress and its outcome
    capQuery,       \* capability harness: the last query and its answer
    entState,       \* climate entity: _state, the local copy of its zone's state
    entCall,        \* climate entity: the last setter call
    wr,             \* write harness: the _write_gatt_with_retry call at hand
    ex,             \* executor harness: the _execute_command_safely call at hand
    zp,             \* zone probe harness: the get_available_zones call at hand
    rb,             \* reboot_device running beside the worker and the poll
    fanReq          \* climate entity: the arguments of the last
                    \* async_set_fan_mode call

\* the variables of the capability and entity harnesses
\* the variables of the zone probe and of the reboot call
moreVars == <<zp, rb, fanReq>>

entityVars == <<capQuery, entState, entCall, wr, ex, moreVars>>

vars == <<queue, fut, ret, workerTask, wpc, wcmd, wcancel, execOrder,
          lock, client, idleExpired, hpc, hcancel, ppc, pcancel, pollInProgress,
          lastPollSuccess, spc, deviceState, dPayload, dResult,
          updateListeners, dLog, deviceDelays, streak, lastSuccess,
          conn, call, entityVars>>

queueVars == <<queue, fut, ret>>
workerVars == <<workerTask, wpc, wcmd, wcancel, execOrder>>
pollVars == <<ppc, pcancel, pollInProgress, lastPollSuccess>>
healthVars == <<hpc, hcancel>>
harnessVars ==
    <<dPayload, dResult, updateListeners, dLog, deviceDelays, streak,
      lastSuccess, conn, call, entityVars>>

\* =================================================================== decrypt
\* A raw payload is modelled by what json.loads makes of it:
\*   kind "bad_utf8"  bytes that are not valid UTF-8
\*   kind "bad_json"  text that is not a JSON document
\*   kind "scalar"    a JSON number, true, false or null
\*   kind "string"    a JSON string;  has = the text contains "Z_sts"
\*   kind "array"     a JSON array;   has = "Z_sts" is one of its elements
\*   kind "object"    a JSON object;  has = it has the key "Z_sts"
\* zsts is the Z_sts mapping of an object in document order: a sequence of
\* [key, len, mode_num, active] (zone key, length of the zone's status array,
\* element 10 and element 15 of the array).

NoZsts == << >>

ZoneInfo(key, len, mode_num, active) ==
    [key |-> key, len |-> len, mode_num |-> mode_num, active |-> active]

Payload(kind, has, zsts) == [kind |-> kind, has |-> has, zsts |-> zsts]

\* json.loads(data): the exception it raises ("none" when it returns)
JsonLoadsError(data) ==
    CASE data.kind = "bad_utf8" -> "UnicodeDecodeError"
      [] data.kind = "bad_json" -> "JSONDecodeError"
      [] OTHER -> "none"

\* `"Z_sts" not in status` for the parsed value: the exception it raises
ContainsError(status) ==
    IF status.kind = "scalar" THEN "TypeError" ELSE "none"

\* `"Z_sts" in status`: substring, element or key test, by the value's type
ContainsZsts(status) == status.has

\* status.get("PRM", []): only a dict has .get
GetError(status) ==
    IF status.kind = "object" THEN "none" ELSE "AttributeError"

\* int(zone_key)
ZoneKeyInt(key) ==
    CASE key = "0" -> [ok |-> TRUE, n |-> 0]
      [] key = "1" -> [ok |-> TRUE, n |-> 1]
      [] key = "2" -> [ok |-> TRUE, n |-> 2]
      [] key = "00" -> [ok |-> TRUE, n |-> 0]
      [] OTHER -> [ok |-> FALSE, n |-> 0]

\* the active-state bitmask test `active_state_num & bit`
BitSet(n, bit) == (n \div bit) % 2 = 1

CurrentMode(active) ==
    IF BitSet(active, 2) THEN "cool"
    ELSE IF BitSet(active, 4) THEN "heat"
    ELSE IF BitSet(active, 1) THEN "dry"
    ELSE "off"

ZoneStatus_ModeFromSelection(info) ==
    [empty |-> FALSE, mode_num |-> info.mode_num,
     active_state_num |-> info.active,
     current_mode |-> IF info.mode_num = 2 THEN "cool"
                      ELSE IF info.mode_num \in {4, 5} THEN "heat"
                      ELSE IF info.mode_num = 6 THEN "dry" ELSE "off"]

ZoneStatus(info) ==
    [empty |-> FALSE, mode_num |-> info.mode_num,
     active_state_num |-> info.active, current_mode |-> CurrentMode(info.active)]

EmptyZone ==
    [empty |-> TRUE, mode_num |-> 0, active_state_num |-> 0, current_mode |-> ""]

\* zone_data[zone_num] = zone_status
DictSet(d, k, v) == [x \in (DOMAIN d) \cup {k} |-> IF x = k THEN v ELSE d[x]]

EmptyDict == [x \in {} |-> 0]

\* the loop over status["Z_sts"].keys(): [avail, zones] after entries i..Len
RECURSIVE DecodeZones_AbortOnShort(_, _, _, _)
DecodeZones_AbortOnShort(zsts, i, avail, zones) ==
    IF i > Len(zsts) THEN [avail |-> avail, zones |-> zones]
    ELSE LET info == zsts[i]
             zn == ZoneKeyInt(info.key)
         IN IF ~zn.ok THEN DecodeZones_AbortOnShort(zsts, i + 1, avail, zones)
            ELSE IF info.len < 16 THEN [avail |-> avail, zones |-> zones]
            ELSE DecodeZones_AbortOnShort(zsts, i + 1, Append(avail, zn.n),
                                          DictSet(zones, zn.n, ZoneStatus(info)))

RECURSIVE DecodeZones(_, _, _, _)
DecodeZones(zsts, i, avail, zones) ==
    IF i > Len(zsts) THEN [avail |-> avail, zones |-> zones]
    ELSE LET info == zsts[i]
             zn == ZoneKeyInt(info.key)
         IN IF ~zn.ok THEN DecodeZones(zsts, i + 1, avail, zones)
            ELSE IF info.len < 16 THEN DecodeZones(zsts, i + 1, avail, zones)
            ELSE DecodeZones(zsts, i + 1, Append(avail, zn.n),
                             DictSet(zones, zn.n, ZoneStatus(info)))

\* sorted(available_zones)
RECURSIVE Insert(_, _)
Insert(s, x) ==
    IF s = << >> THEN <<x>>
    ELSE IF x < Head(s) THEN <<x>> \o s
    ELSE <<Head(s)>> \o Insert(Tail(s), x)

RECURSIVE Sorted(_)
Sorted(s) == IF s = << >> THEN << >> ELSE Insert(Sorted(Tail(s)), Head(s))

\* _device_state = {} after construction
EmptyDeviceState ==
    [available_zones |-> << >>, zones |-> EmptyDict, zone_configs |-> EmptyDict]

\* {"available_zones": [0], "zones": {0: {}}}
DefaultState ==
    [available_zones |-> <<0>>, zones |-> DictSet(EmptyDict, 0, EmptyZone),
     zone_configs |-> EmptyDict]

\* `preserved_zone_configs = self._device_state.get("zone_configs", {})`, put
\* back into the new state when it is not empty (an absent key reads as {})
PreservedZoneConfigs_Dropped(state) == EmptyDict

PreservedZoneConfigs(state) == state.zone_configs

\* hr_status as built from a payload that carries Z_sts, with the previous
\* state's zone_configs carried over
ParsedState(status, state) ==
    LET z == DecodeZones(status.zsts, 1, << >>, EmptyDict)
    IN IF z.avail = << >>
       THEN [available_zones |-> <<0>>, zones |-> DictSet(EmptyDict, 0, EmptyZone),
             zone_configs |-> PreservedZoneConfigs(state)]
       ELSE [available_zones |-> Sorted(z.avail), zones |-> z.zones,
             zone_configs |-> PreservedZoneConfigs(state)]

DecryptOutcome(raised, value, state, notify) ==
    [raised |-> raised, value |-> value, state |-> state, notify |-> notify]

SoftOutcome_Installed(state) == DecryptOutcome("none", DefaultState, DefaultState, TRUE)

\* the two early returns `return {"available_zones": [0], "zones": {0: {}}}`:
\* nothing is stored and nobody is notified
SoftOutcome(state) == DecryptOutcome("none", DefaultState, state, FALSE)

\* decrypt(data) called with canonical state `state`:
\*   raised  the exception that escapes ("none" when it returns)
\*   value   the returned dict
\*   state   _device_state afterwards
\*   notify  whether _notify_update ran
Decrypt(data, state) ==
    IF JsonLoadsError(data) = "JSONDecodeError"
    THEN SoftOutcome(state)
    ELSE IF JsonLoadsError(data) # "none"
    THEN DecryptOutcome(JsonLoadsError(data), EmptyDeviceState, state, FALSE)
    ELSE IF ContainsError(data) # "none"
    THEN DecryptOutcome(ContainsError(data), EmptyDeviceState, state, FALSE)
    ELSE IF ~ContainsZsts(data)
    THEN SoftOutcome(state)
    ELSE IF GetError(data) # "none"
    THEN DecryptOutcome(GetError(data), EmptyDeviceState, state, FALSE)
    ELSE DecryptOutcome("none", ParsedState(data, state),
                        ParsedState(data, state), TRUE)

\* ------------------------------------------------------------ _notify_update
\* A listener is modelled by what calling it does:
\*   "ok"     takes the state and returns
\*   "noarg"  takes no argument and returns (callback(state) raises TypeError
\*            before its body runs; the fallback callback() runs it)
\*   an exception name: takes the state, its body raises that exception
ListenerKinds == {"ok", "noarg", "ValueError", "TypeError", "KeyError", "RuntimeError"}

\* `except (ValueError, AttributeError)` around callback(state)
NotifyCatches == {"ValueError", "AttributeError"}

\* one body execution of listener i, which saw `state` as the device state
LogEntry(i, state) == [listener |-> i, saw |-> state]

\* the loop over list(self._update_listeners) from listener i on:
\* [log, raised] where raised is the exception that leaves _notify_update
RECURSIVE NotifyUpdate(_, _, _, _)
NotifyUpdate(ls, i, log, state) ==
    IF i > Len(ls) THEN [log |-> log, raised |-> "none"]
    ELSE CASE ls[i] \in {"ok", "noarg"} ->
                NotifyUpdate(ls, i + 1, Append(log, LogEntry(i, state)), state)
           [] ls[i] \in NotifyCatches ->
                NotifyUpdate(ls, i + 1, Append(log, LogEntry(i, state)), state)
           [] ls[i] = "TypeError" ->
                \* the fallback callback() of a one-argument listener raises
                \* TypeError again, which the fallback's handler does not name
                [log |-> Append(log, LogEntry(i, state)), raised |-> "TypeError"]
           [] OTHER ->
                [log |-> Append(log, LogEntry(i, state)), raised |-> ls[i]]

\* `except (KeyError, ValueError, AttributeError)` around decrypt's call of
\* _notify_update
DecryptNotifyCatches == {"KeyError", "ValueError", "AttributeError"}

\* decrypt(data) with the listeners `ls` subscribed: [outcome, log]
DecryptNotify(data, state, ls) ==
    LET d == Decrypt(data, state)
        n == NotifyUpdate(ls, 1, << >>, d.state)
    IN IF ~d.notify THEN [outcome |-> d, log |-> << >>]
       ELSE [outcome |-> DecryptOutcome(
                            IF n.raised \in DecryptNotifyCatches THEN "none"
                            ELSE n.raised,
                            d.value, d.state, TRUE),
             log |-> n.log]

\* ------------------------------------------------- adaptive operation delays
\* Delays are exact multiples of 1/DelayUnit second: a failure stores 1, 2 or
\* 4 seconds and each decay multiplies by 3/4, at most once per recorded
\* failure, so no value leaves the grid (the floats of the source are exact
\* on these values too).
Addresses == {"addrA", "addrB"}
Operations == {"write", "read"}
\* every operation name the call sites use
TableOperations == Operations \cup {"connect", "auth"}
DelayUnit == 4 ^ MaxFailures
HalfSecond == DelayUnit \div 2
\* self._max_delay = 6.0
MaxDelay == 6 * DelayUnit

Min(a, b) == IF a <= b THEN a ELSE b
Max(a, b) == IF a >= b THEN a ELSE b

\* an (address, operation) pair with no entry in the table
Absent == [present |-> FALSE, delay |-> 0, failures |-> 0]
NoDelays == [a \in Addresses |-> [o \in TableOperations |-> Absent]]

\* _get_operation_delay: 0.0 when there is no entry
GetOperationDelay(delays, address, operation) == delays[address][operation].delay

IncreasedDelay_Uncapped(failures) == Min(HalfSecond * (2 ^ failures), MaxDelay)

\* min(0.5 * (2 ** min(failures, 3)), self._max_delay)
IncreasedDelay(failures) == Min(HalfSecond * (2 ^ Min(failures, 3)), MaxDelay)

IncreaseOperationDelay_AllDevices(delays, address, operation) ==
    [a \in Addresses |->
        [delays[a] EXCEPT ![operation] =
            [present |-> TRUE, failures |-> @.failures + 1,
             delay |-> IncreasedDelay(@.failures + 1)]]]

\* _increase_operation_delay: the entry is created as {0.0, 0} when missing,
\* its count goes up by one and its delay is recomputed from the count
IncreaseOperationDelay(delays, address, operation) ==
    [delays EXCEPT ![address][operation] =
        [present |-> TRUE, failures |-> @.failures + 1,
         delay |-> IncreasedDelay(@.failures + 1)]]

\* current["delay"] * 0.75
Decayed(delay) == (delay * 3) \div 4

\* current["delay"] < 0.1
BelowResetThreshold(delay) == 10 * delay < DelayUnit

\* _adjust_operation_delay: nothing without an entry; decay only while the
\* count is positive; then the reset test
AdjustOperationDelay(delays, address, operation) ==
    LET cur == delays[address][operation]
        dec == IF cur.failures > 0
               THEN [cur EXCEPT !.failures = Max(0, @ - 1),
                                !.delay = Max(0, Decayed(@))]
               ELSE cur
        fin == IF dec.failures = 0 /\ BelowResetThreshold(dec.delay)
               THEN [dec EXCEPT !.delay = 0]
               ELSE dec
    IN IF ~cur.present THEN delays
       ELSE [delays EXCEPT ![address][operation] = fin]

Broken == 0 - 1
NoStreaks == [a \in Addresses |-> [o \in TableOperations |-> 0]]

\* a success recorded for (address, operation) that found the entry `before`
Success(recorded, address, operation, before) ==
    [recorded |-> recorded, address |-> address, operation |-> operation,
     before |-> before]
NoSuccess == Success(FALSE, "addrA", "write", Absent)

\* ------------------------------------------------------ the BLE connection
\* self._client and the connections opened through it:
\*   handle     "None", "False" (the value _connect_to_device returns when
\*              no services show up) or "client" (a client object)
\*   connected  handle is a client and its is_connected is true
\*   services   handle is a connected client whose service table is filled
\*   orphan     some client object that self._client no longer refers to is
\*              still connected
Conn(handle, connected, services, orphan) ==
    [handle |-> handle, connected |-> connected, services |-> services,
     orphan |-> orphan]
NoConn == Conn("None", FALSE, FALSE, FALSE)

\* `self._client and self._client.is_connected`
IsConnected(c) == c.handle = "client" /\ c.connected

\* what one call of _connect_to_device can meet
ConnectOutcomes == {"connected", "no_services", "dropped", "raises"}

\* _connect_to_device(ble_device): [conn, ret, raised].  The new client is
\* stored in self._client before the service table is looked at; a client
\* that was still connected when the handle is overwritten stays connected.
\*   "connected"    the client is returned
\*   "no_services"  the table is empty after the 2 s re-check: returns False
\*   "dropped"      the client is returned, the link is already gone
\*   "raises"       establish_connection raised on every retry
ConnectToDevice(c, outcome) ==
    LET left == c.orphan \/ IsConnected(c)
    IN CASE outcome = "connected" ->
              [conn |-> Conn("client", TRUE, TRUE, left), ret |-> "client",
               raised |-> "none"]
         [] outcome = "no_services" ->
              [conn |-> Conn("client", TRUE, FALSE, left), ret |-> "False",
               raised |-> "none"]
         [] outcome = "dropped" ->
              [conn |-> Conn("client", FALSE, FALSE, left), ret |-> "client",
               raised |-> "none"]
         [] OTHER ->
              [conn |-> c, ret |-> "None", raised |-> "BleakError"]

\* `self._client = await self._connect_to_device(ble_device)`
AssignReturn(r) ==
    IF r.ret = "False"
    THEN Conn("False", FALSE, FALSE, r.conn.orphan \/ IsConnected(r.conn))
    ELSE r.conn

\* _disconnect_safely() and reboot_device's finally block:
\* `if self._client and self._client.is_connected: disconnect()`, errors of
\* disconnect() swallowed, then self._client = None.  disconnect() ends the
\* link even when it raises.
Released(c) == Conn("None", FALSE, FALSE, c.orphan)

\* authenticate's except block: disconnect() is outside any handler there,
\* so when it raises the handle is not cleared
AuthHandler(c, discRaises) ==
    IF IsConnected(c) /\ discRaises
    THEN Conn("client", FALSE, FALSE, c.orphan)
    ELSE Released(c)

DiscoverOutcomes == {"found", "none", "raises"}
AuthWriteOutcomes == {"ok", "raises", "raises_dropped"}

\* one attempt of authenticate(password): [conn, ok]; an exception that
\* leaves the attempt counts as not ok for the retry wrapper.
\*   r  outcome of the reconnect made when the client is not connected
\*   d  outcome of discover_services() made when the table is empty
\*   w  outcome of the password write
\*   x  whether disconnect() raises in the except block
AuthenticateOnce(c, r, d, w, x) ==
    LET rc == ConnectToDevice(c, r)
        c1 == IF IsConnected(c) THEN c ELSE rc.conn
        c2 == IF c1.services THEN c1
              ELSE Conn(c1.handle, c1.connected, d = "found", c1.orphan)
        c3 == IF w = "raises_dropped"
              THEN Conn(c2.handle, FALSE, FALSE, c2.orphan) ELSE c2
    IN IF ~IsConnected(c) /\ rc.raised # "none"
       THEN [conn |-> AuthHandler(c, x), ok |-> FALSE]
       ELSE IF ~IsConnected(c1)
       THEN [conn |-> c1, ok |-> FALSE]
       ELSE IF ~c1.services /\ d = "raises"
       THEN [conn |-> AuthHandler(c1, x), ok |-> FALSE]
       ELSE IF ~c2.services
       THEN [conn |-> c2, ok |-> FALSE]
       ELSE IF w # "ok"
       THEN [conn |-> AuthHandler(c3, x), ok |-> FALSE]
       ELSE [conn |-> c2, ok |-> TRUE]

\* @retry_authentication(retries=3, delay=2)
AuthRetries == 3

\* the reset write of reboot_device: exception type and what its text holds
Write(exc, hasError, has133) ==
    [exc |-> exc, hasError |-> hasError, has133 |-> has133]
NoWrite == Write("not written", FALSE, FALSE)
RebootWrites ==
    {Write("none", FALSE, FALSE)}
    \cup {Write(e, h, n) : e \in {"BleakError", "OSError"}, h \in BOOLEAN, n \in BOOLEAN}

RebootWriteSucceeded_CleanWriteOnly(write) == write.exc = "none"

\* `return True` after the write, or in `except BleakError` when
\* `"Error" in str(e) and "133" in str(e)`
RebootWriteSucceeded(write) ==
    \/ write.exc = "none"
    \/ write.exc = "BleakError" /\ write.hasError /\ write.has133

\* the inner `except BleakError` that does not return True
RebootWriteRecordsFailure(write) ==
    write.exc = "BleakError" /\ ~(write.hasError /\ write.has133)

\* reboot_device's outer handler
RebootCatches ==
    {"BleakError", "TimeoutError", "OSError", "AttributeError", "JSONDecodeError"}

\* errors disconnect() can raise in reboot_device's finally block, and the
\* ones its handler names (asyncio.TimeoutError is an OSError)
DisconnectErrors == {"none", "BleakError", "OSError"}
RebootFinallyCatches == {"BleakError", "OSError"}

\* what the caller of reboot_device gets for the reset write `write` and the
\* error `discError` of the final disconnect
RebootResult(write, discError) ==
    IF discError \notin RebootFinallyCatches \cup {"none"} THEN "raised"
    ELSE IF RebootWriteSucceeded(write) THEN "true"
    ELSE IF write.exc \in RebootCatches THEN "false"
    ELSE "raised"

\* the call in progress: function, position, authenticate attempts made,
\* result ("none" while running, "raised" for an escaping exception), and
\* for reboot_device the reset write and the error of the final disconnect
Call(fn, pc, attempt, result, write, discError) ==
    [fn |-> fn, pc |-> pc, attempt |-> attempt, result |-> result,
     write |-> write, discError |-> discError]
NoCall == Call("none", "idle", 0, "none", NoWrite, "none")
Done(fn, result, write, discError) == Call(fn, "done", 0, result, write, discError)

\* ------------------------------------------------------ zone capabilities
\* Python's `a & b` on non-negative integers
RECURSIVE BitAnd(_, _)
BitAnd(a, b) ==
    IF a = 0 \/ b = 0 THEN 0
    ELSE (a % 2) * (b % 2) + 2 * BitAnd(a \div 2, b \div 2)

\* a stored zone configuration; FA[i + 1] is element i of the FA array
Config(mav, fa) == [MAV |-> mav, FA |-> fa]

\* `[0] * 16`
DefaultFA == [i \in 1..16 |-> 0]

\* get_zone_config(zone): {} when nothing was fetched, which reads as
\* MAV 0 and FA [0] * 16 through the .get defaults of its callers
GetZoneConfig(state, zone) ==
    IF zone \in DOMAIN state.zone_configs THEN state.zone_configs[zone]
    ELSE Config(0, DefaultFA)

IsModeAvailable_BitOnly(state, zone, mode) ==
    BitAnd(GetZoneConfig(state, zone).MAV, 2 ^ mode) > 0

\* is_mode_available(zone, mode)
IsModeAvailable(state, zone, mode) ==
    LET mav == GetZoneConfig(state, zone).MAV
    IN IF mav = 0 THEN TRUE ELSE BitAnd(mav, 2 ^ mode) > 0

\* get_available_modes(zone): the loop over range(16) from `mode` on
RECURSIVE AvailableModesFrom(_, _)
AvailableModesFrom(mav, mode) ==
    IF mode >= 16 THEN << >>
    ELSE (IF BitAnd(mav, 2 ^ mode) > 0 THEN <<mode>> ELSE << >>)
         \o AvailableModesFrom(mav, mode + 1)

GetAvailableModes(state, zone) ==
    AvailableModesFrom(GetZoneConfig(state, zone).MAV, 0)

Capabilities(max_speed, fixed_speed, allow_off, allow_manual_auto, allow_full_auto) ==
    [max_speed |-> max_speed, fixed_speed |-> fixed_speed, allow_off |-> allow_off,
     allow_manual_auto |-> allow_manual_auto, allow_full_auto |-> allow_full_auto]

\* get_fan_capabilities(zone, mode)
GetFanCapabilities(state, zone, mode) ==
    LET fa_array == GetZoneConfig(state, zone).FA
        fa_value == fa_array[mode + 1]
    IN IF mode >= Len(fa_array)
       THEN Capabilities(0, TRUE, FALSE, FALSE, FALSE)
       ELSE Capabilities(BitAnd(fa_value, 15), BitAnd(fa_value, 16) > 0,
                         BitAnd(fa_value, 32) > 0, BitAnd(fa_value, 64) > 0,
                         BitAnd(fa_value, 128) > 0)

ManualSpeeds_Uncapped(speed, max_speed) ==
    IF speed > max_speed THEN << >> ELSE [i \in 1..(max_speed - speed + 1) |-> speed + i - 1]

\* `for speed in range(1, max_speed + 1): if speed > 3: break; append`
RECURSIVE ManualSpeeds(_, _)
ManualSpeeds(speed, max_speed) ==
    IF speed > max_speed \/ speed > 3 THEN << >>
    ELSE <<speed>> \o ManualSpeeds(speed + 1, max_speed)

\* get_available_fan_speeds(zone, mode)
GetAvailableFanSpeeds(state, zone, mode) ==
    LET c == GetFanCapabilities(state, zone, mode)
    IN IF c.fixed_speed
       THEN (IF c.max_speed > 0 THEN <<c.max_speed>> ELSE <<1>>)
       ELSE (IF c.allow_off THEN <<0>> ELSE << >>)
            \o ManualSpeeds(1, c.max_speed)
            \o (IF c.max_speed = 0 /\ c.allow_off /\ ~c.allow_manual_auto
                    /\ ~c.allow_full_auto
                 THEN <<128>> ELSE << >>)
            \o (IF c.allow_manual_auto THEN <<64>> ELSE << >>)
            \o (IF c.allow_full_auto THEN <<128>> ELSE << >>)

\* a capability query: what was asked and what came back
Query(kind, zone, mode, available, speeds) ==
    [kind |-> kind, zone |-> zone, mode |-> mode, available |-> available,
     speeds |-> speeds]
NoQuery == Query("none", 0, 0, FALSE, << >>)

\* ============================================================ climate entity
\* dict.get(key, default)
Get(d, k, default) == IF k \in DOMAIN d THEN d[k] ELSE default

\* the elements of a list
Elements(s) == {s[i] : i \in DOMAIN s}

\* the keys of HA_MODE_TO_EASY_MODE, in insertion order
HVACModes == <<"off", "heat", "cool", "auto", "fan_only", "dry">>

HA_MODE_TO_EASY_MODE ==
    [m \in Elements(HVACModes) |->
        CASE m = "off" -> 0 [] m = "heat" -> 5 [] m = "cool" -> 2
          [] m = "auto" -> 8 [] m = "fan_only" -> 1 [] m = "dry" -> 6]

\* the heat and auto modes of EASY_MODE_TO_HA_MODE, in insertion order
POSSIBLE_HEAT_MODES == <<5, 4, 7, 12, 3>>
POSSIBLE_AUTO_MODES == <<8, 11, 9, 10>>

\* the device modes EASY_MODE_TO_HA_MODE has a key for
KnownEasyModes ==
    {0, 1, 2, 6} \cup Elements(POSSIBLE_HEAT_MODES) \cup Elements(POSSIBLE_AUTO_MODES)

\* EASY_MODE_TO_HA_MODE.get(mode_num, HVACMode.OFF)
EASY_MODE_TO_HA_MODE(mode_num) ==
    IF mode_num \in Elements(POSSIBLE_HEAT_MODES) THEN "heat"
    ELSE IF mode_num \in Elements(POSSIBLE_AUTO_MODES) THEN "auto"
    ELSE IF mode_num = 2 THEN "cool"
    ELSE IF mode_num = 1 THEN "fan_only"
    ELSE IF mode_num = 6 THEN "dry"
    ELSE "off"

PresetNames == {"Heat Pump", "Furnace", "Gas Furnace", "Heat Strip", "Electric Heat"}

HEAT_TYPE_PRESETS ==
    [p \in PresetNames |->
        CASE p = "Heat Pump" -> 5 [] p = "Furnace" -> 4 [] p = "Gas Furnace" -> 3
          [] p = "Heat Strip" -> 7 [] p = "Electric Heat" -> 12]

\* the hvac_mode property of an entity whose local state is st
HvacMode(st) == EASY_MODE_TO_HA_MODE(Get(st, "mode_num", 0))

\* the hvac_modes property (as a set: the setter only tests membership)
HvacModes(state, zone) ==
    LET available_modes == Elements(GetAvailableModes(state, zone))
        supported ==
            {m \in Elements(HVACModes) : HA_MODE_TO_EASY_MODE[m] \in available_modes}
            \cup {EASY_MODE_TO_HA_MODE(d) : d \in available_modes \cap KnownEasyModes}
    IN IF available_modes = {} \/ supported = {}
       THEN Elements(HVACModes) ELSE supported

\* no mode / no speed: the setter returns before building a command
Rejected == 0 - 1

\* `for m in modes: if is_mode_available(zone, m): alternative_mode = m; break`
RECURSIVE FirstAvailable(_, _, _, _)
FirstAvailable(state, zone, modes, i) ==
    IF i > Len(modes) THEN Rejected
    ELSE IF IsModeAvailable(state, zone, modes[i]) THEN modes[i]
    ELSE FirstAvailable(state, zone, modes, i + 1)

HvacDeviceMode_Unchecked(state, zone, hvac_mode) == HA_MODE_TO_EASY_MODE[hvac_mode]

\* the device mode async_set_hvac_mode puts in its Change command
HvacDeviceMode(state, zone, hvac_mode) ==
    LET mode == HA_MODE_TO_EASY_MODE[hvac_mode]
    IN IF IsModeAvailable(state, zone, mode) THEN mode
       ELSE IF hvac_mode = "heat" THEN FirstAvailable(state, zone, POSSIBLE_HEAT_MODES, 1)
       ELSE IF hvac_mode = "auto" THEN FirstAvailable(state, zone, POSSIBLE_AUTO_MODES, 1)
       ELSE Rejected

\* _get_speed_name_map: the name of one available speed
SpeedName(max_speed, speed) ==
    LET base_speed == IF speed < 64 THEN speed ELSE speed - 64
    IN IF speed = 0 THEN "off"
       ELSE IF speed \in {64, 128} THEN "auto"
       ELSE IF max_speed = 1 THEN "high"
       ELSE IF max_speed = 2 THEN (IF base_speed = 1 THEN "low" ELSE "high")
       ELSE IF base_speed = 1 THEN "low"
       ELSE IF base_speed = 2 THEN "medium"
       ELSE "high"

\* the mode number the fan properties and setter look capabilities up with
FanLookupMode(st) == Get(st, "mode_num", 1)

FallbackFanModes(st) ==
    IF HvacMode(st) = "fan_only" THEN {"off", "low", "high"}
    ELSE {"off", "low", "high", "auto"}

\* the fan_modes property (as a set)
FanModes(state, zone, st) ==
    IF "mode_num" \notin DOMAIN st THEN FallbackFanModes(st)
    ELSE LET available_speeds == GetAvailableFanSpeeds(state, zone, st["mode_num"])
             max_speed == GetFanCapabilities(state, zone, st["mode_num"]).max_speed
         IN IF available_speeds = << >> THEN FallbackFanModes(st)
            ELSE {SpeedName(max_speed, s) : s \in Elements(available_speeds)} \cup {""}

\* next((s for s in speeds if pred), None) over speeds[i..]
RECURSIVE FirstSpeed(_, _, _)
FirstSpeed(speeds, keep, i) ==
    IF i > Len(speeds) THEN Rejected
    ELSE IF speeds[i] \in keep THEN speeds[i]
    ELSE FirstSpeed(speeds, keep, i + 1)

\* the device value async_set_fan_mode derives from the name, before the
\* final `fan_value not in available_speeds` test
FanValueOfName(state, zone, st, fan_mode) ==
    LET mode == FanLookupMode(st)
        available_speeds == GetAvailableFanSpeeds(state, zone, mode)
        capabilities == GetFanCapabilities(state, zone, mode)
        candidates == {s \in Elements(available_speeds) :
                          SpeedName(capabilities.max_speed, s) = fan_mode}
        manual == {s \in candidates : 0 < s /\ s < 64}
        manual_auto == {s \in candidates : 64 < s /\ s < 128}
        prefer_auto == HvacMode(st) = "auto" /\ capabilities.allow_manual_auto
        preferred == FirstSpeed(available_speeds,
                                IF prefer_auto THEN manual_auto ELSE manual, 1)
    IN IF fan_mode = "off" THEN 0
       ELSE IF fan_mode = "auto" THEN 128
       ELSE IF fan_mode \in {"low", "medium", "high"}
            THEN IF preferred # Rejected THEN preferred
                 ELSE FirstSpeed(available_speeds,
                                 IF prefer_auto THEN manual ELSE manual_auto, 1)
       ELSE Rejected

FanValue_Unchecked(state, zone, st, fan_mode) ==
    FanValueOfName(state, zone, st, fan_mode)

\* the value async_set_fan_mode sends, Rejected when it returns early
FanValue(state, zone, st, fan_mode) ==
    LET fan_value == FanValueOfName(state, zone, st, fan_mode)
    IN IF fan_value \in Elements(GetAvailableFanSpeeds(state, zone, FanLookupMode(st)))
       THEN fan_value ELSE Rejected

\* the Changes key the fan value is sent under ("" when no branch sets one)
FanField(st) ==
    LET hvac_mode == HvacMode(st)
    IN IF hvac_mode = "fan_only" THEN "fanOnly"
       ELSE IF hvac_mode = "cool" THEN "coolFan"
       ELSE IF hvac_mode = "heat"
            THEN (IF Get(st, "mode_num", 5) \in {3, 4} THEN "gasFan" ELSE "eleFan")
       ELSE IF hvac_mode = "auto" THEN "autoFan"
       ELSE ""

\* the key of the local state the fan value is stored under afterwards
FanSlot(st) ==
    LET hvac_mode == HvacMode(st)
    IN IF hvac_mode = "fan_only" THEN "fan_mode_num"
       ELSE IF hvac_mode = "cool" THEN "cool_fan_mode_num"
       ELSE IF hvac_mode = "heat" THEN "heat_fan_mode_num"
       ELSE IF hvac_mode = "auto" THEN "auto_fan_mode_num"
       ELSE ""

\* d with every key of `updates` set to its value
DictUpdate(d, updates) ==
    [k \in (DOMAIN d) \cup (DOMAIN updates) |->
        IF k \in DOMAIN updates THEN updates[k] ELSE d[k]]

Optimistic_Always(st, updates, success) == DictUpdate(st, updates)

\* `if success: self._state[key] = value ...`
Optimistic(st, updates, success) ==
    IF success THEN DictUpdate(st, updates) ELSE st

\* the Changes of async_set_temperature
TemperatureChanges(zone, st, kind, temp, low, high) ==
    LET base == DictSet(DictSet(EmptyDict, "zone", zone), "power", 1)
        hvac_mode == HvacMode(st)
    IN IF kind = "temperature"
       THEN (IF hvac_mode = "cool" THEN DictSet(base, "cool_sp", temp)
             ELSE IF hvac_mode = "heat" THEN DictSet(base, "heat_sp", temp)
             ELSE IF hvac_mode = "dry" THEN DictSet(base, "dry_sp", temp)
             ELSE base)
       ELSE IF kind = "range"
            THEN DictSet(DictSet(base, "autoCool_sp", high), "autoHeat_sp", low)
       ELSE base

SetpointKeys == {"cool_sp", "heat_sp", "dry_sp", "autoCool_sp", "autoHeat_sp"}

\* the part of a dict under the given keys
Restrict(d, keys) == [k \in (DOMAIN d) \cap keys |-> d[k]]

\* one setter call of the entity:
\*   fn       the setter ("none" before the first call)
\*   sent     whether send_command was called
\*   changes  the Changes of the command
\*   success  what send_command returned
\*   before   the local state when the setter was called
\*   rollback whether a _check_and_rollback task is pending
Setter(fn, sent, changes, success, before, rollback) ==
    [fn |-> fn, sent |-> sent, changes |-> changes, success |-> success,
     before |-> before, rollback |-> rollback]

NoSetter == Setter("none", FALSE, EmptyDict, FALSE, EmptyDict, FALSE)

\* ================================================ _write_gatt_with_retry
\* `retries: int = 3`
WriteRetries == 3

MayRetry_Always(attempt) == TRUE

\* `if attempt < retries - 1:` the delay is increased and the loop continues;
\* after the last attempt range(retries) is exhausted
MayRetry(attempt) == attempt < WriteRetries - 1

\* how _reconnect_and_authenticate ends
ReconnectOutcomes == {"ok", "connect_failed", "auth_failed", "raised"}

\* the delay table after _reconnect_and_authenticate ended with `outcome`
ReconnectDelays(delays, address, outcome) ==
    IF outcome \in {"connect_failed", "raised"}
    THEN IncreaseOperationDelay(delays, address, "connect")
    ELSE LET connected == AdjustOperationDelay(delays, address, "connect")
         IN IF outcome = "ok"
            THEN AdjustOperationDelay(connected, address, "auth")
            ELSE IncreaseOperationDelay(connected, address, "auth")

\* one call of _write_gatt_with_retry:
\*   pc       "idle", "check" (top of the loop), "sleep", "write", "done"
\*   attempt  the loop index
\*   writes   write_gatt_char calls made
\*   failures BleakErrors caught
\*   slept    the delay waited before the attempt at hand (units of 1/DelayUnit s)
\*   result   "none", "true", "false", or "raised" for an exception let through
WriteCall(pc, attempt, writes, failures, slept, result) ==
    [pc |-> pc, attempt |-> attempt, writes |-> writes, failures |-> failures,
     slept |-> slept, result |-> result]

NoWriteCall == WriteCall("idle", 0, 0, 0, 0, "none")

\* =============================================== _execute_command_safely
FollowsUp_Always(type) == TRUE

\* `if command.get("Type") == "Change":` the follow-up status read
FollowsUp(type) == type = "Change"

\* the handlers around the follow-up and around the whole executor body
FollowUpCatches == {"BleakError", "TimeoutError", "OSError", "JSONDecodeError"}

NoZone == 0 - 1

\* one call of _execute_command_safely:
\*   type       command["Type"]
\*   zone       command["Changes"]["zone"]
\*   pc         "idle", "ensure", "write", "status", "read", "done"
\*   written    the command write returned True
\*   statusZone the Zone of the Get Status request written after it (NoZone: none)
\*   read       _read_gatt_with_retry was called
\*   followUp   "none"; "write_failed", "no_response", "error" (logged); "decoded"
\*   result     "none", "true", "false", or "raised" for an exception let through
\*   before     _device_state when the call began
Execution(type, zone, pc, written, statusZone, read, followUp, result, before) ==
    [type |-> type, zone |-> zone, pc |-> pc, written |-> written,
     statusZone |-> statusZone, read |-> read, followUp |-> followUp,
     result |-> result, before |-> before]

NoExecution ==
    Execution("none", 0, "idle", FALSE, NoZone, FALSE, "none", "none", EmptyDeviceState)

\* ------------------------------------------------------ get_available_zones
\* `for attempt in range(3)`
ProbeAttempts == 3

\* len(probe_commands)
ProbeCommands == 2

\* a get_available_zones call:
\*   pc        "idle", "connect", "auth", "command", "finally", "done"
\*   attempt   the loop variable `attempt`
\*   cmd       the loop variable `cmd_index`
\*   link      the probe's `client`: "none"; "open" (connected); "unconnected"
\*   opened    connected clients establish_connection has handed out
\*   released  client.disconnect() calls
\*   slept     `await asyncio.sleep(1.0)` between attempts
\*   leave     how the try block is left: "fall" (its end or a handled
\*             exception), "continue", "return", or "raise"
\*   result    "none"; "returned"; the exception that escapes the call
\*   zones     the returned list
Probe(pc, attempt, cmd, link, opened, released, slept, leave, result, zones) ==
    [pc |-> pc, attempt |-> attempt, cmd |-> cmd, link |-> link,
     opened |-> opened, released |-> released, slept |-> slept, leave |-> leave,
     result |-> result, zones |-> zones]

NoProbe == Probe("idle", 0, 0, "none", 0, 0, 0, "fall", "none", << >>)

\* ------------------------------------------------------------ reboot_device
\* position of a reboot_device call: "idle", "connect", "auth", "write",
\* "finally", "done"
NoReboot == "idle"

\* no async_set_fan_mode call was made yet
NoFanRequest == [name |-> "", has_device |-> FALSE]

\* the capability and entity harnesses before their first step
EntityAtRest ==
    /\ capQuery = NoQuery
    /\ entState = EmptyDict
    /\ entCall = NoSetter
    /\ wr = NoWriteCall
    /\ ex = NoExecution
    /\ zp = NoProbe
    /\ rb = NoReboot
    /\ fanReq = NoFanRequest


\* ============================================================ wire payloads
\* the status payloads the device answers with in the concurrency model
ValidPayload == Payload("object", TRUE, <<ZoneInfo("0", 16, 5, 4)>>)

WirePayloads ==
    {ValidPayload, Payload("bad_json", FALSE, NoZsts),
     Payload("bad_utf8", FALSE, NoZsts), Payload("scalar", FALSE, NoZsts)}

\* command["Type"]: nothing reads it before the executor's
\* `command.get("Type") == "Change"`, where the model draws it
CmdTypes == {"Change", "Get Status"}

\* ================================================================== helpers
\* positions of a task whose first step is still in the event loop's queue
WorkerNewPcs == {"new", "new_late"}

\* The event loop runs ready callbacks in the order they were queued.  A task
\* created while async_shutdown's wake-up (after the poll task ended) is
\* already queued takes its first step after that wake-up ("new_late"); any
\* other new task takes its first step before a wake-up queued later ("new").
CreatedPc == IF spc = "poll_done" THEN "new_late" ELSE "new"

WorkerDonePcs == {"cancelled", "crashed"}
WorkerLockedPcs == {"connect", "write", "verify"}
PollLockedPcs == {"connect", "write", "read"}

WorkerDone_WhileFinishing(w) ==
    wpc[w] \in WorkerDonePcs \cup {"fin_cancel", "fin_crash"}

\* task.done() of a worker task
WorkerDone(w) == wpc[w] \in WorkerDonePcs

\* a worker task that was created and has not finished
WorkerAlive(w) == wpc[w] \notin WorkerDonePcs \cup {"none"}

PollAlive == ppc \notin {"cancelled", "crashed"}

HealthAlive == hpc = "sleep"

\* `if not result_future.done(): result_future.set_result(r)`
SetResult(f, c, r) == IF f[c] = "pending" THEN [f EXCEPT ![c] = r] ELSE f

BoolStr(b) == IF b THEN "true" ELSE "false"

\* _disconnect_safely(): the handle is cleared whatever disconnect() does
DisconnectSafely == client' = "none"

\* ------------------------------------------------------- _ensure_connected
\* first branch: the existing connection is connected and has services
ConnectionUsable == client = "ready"

\* success path: new client, _last_activity_time = now, health monitor started
EnsureConnectedOk ==
    /\ client' = "ready"
    /\ idleExpired' = FALSE
    /\ IF HealthAlive THEN UNCHANGED healthVars
       ELSE hpc' = "sleep" /\ hcancel' = FALSE

\* connect or authentication failed, or raised: no client is kept
EnsureConnectedFail ==
    /\ client' = "none"
    /\ UNCHANGED <<idleExpired, hpc, hcancel>>

\* ------------------------------------------------------------ send_command
\* `not self._queue_worker_task or self._queue_worker_task.done()`
WorkerNeeded_Always == TRUE

WorkerNeeded == workerTask = NoTask \/ WorkerDone(workerTask)

\* send_command up to its wait on the result future: no suspension inside
SendCommand(c) ==
    /\ ret[c] = "idle"
    /\ \A d \in Cmds : d < c => ret[d] # "idle"
    /\ IF WorkerNeeded
       THEN /\ workerTask < MaxWorkers
            /\ workerTask' = workerTask + 1
            /\ wpc' = [wpc EXCEPT ![workerTask + 1] = CreatedPc]
       ELSE UNCHANGED <<workerTask, wpc>>
    /\ queue' = Append(queue, c)
    /\ fut' = [fut EXCEPT ![c] = "pending"]
    /\ ret' = [ret EXCEPT ![c] = "waiting"]
    /\ UNCHANGED <<wcmd, wcancel, execOrder, lock, client, idleExpired, healthVars,
                   pollVars, spc, deviceState, harnessVars>>

\* wait_for(result_future, 30.0) returns the worker's result
SendCommandReturn(c) ==
    /\ ret[c] = "waiting"
    /\ fut[c] \in {"true", "false"}
    /\ ret' = [ret EXCEPT ![c] = fut[c]]
    /\ UNCHANGED <<queue, fut, workerVars, lock, client, idleExpired,
                   healthVars, pollVars, spc, deviceState, harnessVars>>

\* what send_command returns when the 30 s wait expires
TimeoutResult == "false"

\* `asyncio.wait_for(result_future, timeout=30.0)`: the wait has a timeout
WaitIsBounded_NoTimeout == FALSE

WaitIsBounded == TRUE

\* wait_for times out: the future is cancelled and send_command returns False
SendCommandTimeout(c) ==
    /\ WaitIsBounded
    /\ ret[c] = "waiting"
    /\ fut[c] = "pending"
    /\ fut' = [fut EXCEPT ![c] = "cancelled"]
    /\ ret' = [ret EXCEPT ![c] = TimeoutResult]
    /\ UNCHANGED <<queue, workerVars, lock, client, idleExpired,
                   healthVars, pollVars, spc, deviceState, harnessVars>>


\* ================================================== _process_command_queue
\* exceptions `_execute_command_safely` turns into `return False`
ExecutorCatches == {"BleakError", "TimeoutError", "OSError", "JSONDecodeError"}

\* exceptions the worker loop handles and survives
WorkerCatches == {"BleakError", "TimeoutError", "OSError", "JSONDecodeError"}

\* the queue position `self._command_queue.get()` hands out
DequeueIndex_Last(q) == Len(q)

DequeueIndex(q) == 1

RemoveAt(q, i) == SubSeq(q, 1, i - 1) \o SubSeq(q, i + 1, Len(q))

\* a worker is between entering and leaving _execute_command_safely
Executing(w) == wpc[w] \in {"lockwait"} \cup WorkerLockedPcs

\* `async with self._client_lock` of the executor: may it enter now?
ExecutorMayEnter == lock = NoTask

\* where _execute_command_safely first suspends once it holds the lock
EnterPc == IF ConnectionUsable THEN "write" ELSE "connect"

\* the task's first step: the coroutine runs up to its wait on the queue
WorkerStart(w) ==
    /\ wpc[w] \in WorkerNewPcs
    /\ ~wcancel[w]
    /\ wpc' = [wpc EXCEPT ![w] = "get"]
    /\ UNCHANGED <<queueVars, workerTask, wcmd, wcancel, execOrder, lock, client,
                   idleExpired, healthVars, pollVars, spc, deviceState, harnessVars>>

\* the worker takes the next command and enters _execute_command_safely
WorkerDequeue(w) ==
    /\ wpc[w] = "get"
    /\ ~wcancel[w]
    /\ queue # << >>
    /\ LET c == queue[DequeueIndex(queue)] IN
        /\ queue' = RemoveAt(queue, DequeueIndex(queue))
        /\ \/ \* no BLE device is available: resolve False and continue
              /\ fut' = SetResult(fut, c, "false")
              /\ UNCHANGED <<wpc, wcmd, execOrder, lock>>
           \/ /\ wcmd' = [wcmd EXCEPT ![w] = c]
              /\ execOrder' = Append(execOrder, c)
              /\ IF ExecutorMayEnter
                 THEN lock' = w /\ wpc' = [wpc EXCEPT ![w] = EnterPc]
                 ELSE lock' = lock /\ wpc' = [wpc EXCEPT ![w] = "lockwait"]
              /\ fut' = fut
    /\ UNCHANGED <<ret, workerTask, wcancel, client, idleExpired,
                   healthVars, pollVars, spc, deviceState, harnessVars>>

\* the executor gets the lock it was waiting for
WorkerAcquire(w) ==
    /\ wpc[w] = "lockwait"
    /\ ~wcancel[w]
    /\ ExecutorMayEnter
    /\ lock' = w
    /\ wpc' = [wpc EXCEPT ![w] = EnterPc]
    /\ UNCHANGED <<queueVars, workerTask, wcmd, wcancel, execOrder, client,
                   idleExpired, healthVars, pollVars, spc, deviceState, harnessVars>>

\* _execute_command_safely returns `result`: the lock is released, the future
\* resolved, task_done() called; the worker sleeps 0.1 s and waits on the queue
ExecutorReturns(w, result) ==
    /\ lock' = NoTask
    /\ fut' = SetResult(fut, wcmd[w], BoolStr(result))
    /\ wcmd' = [wcmd EXCEPT ![w] = 0]
    /\ wpc' = [wpc EXCEPT ![w] = "get"]
    /\ UNCHANGED <<queue, ret, workerTask, wcancel, execOrder>>

\* an exception neither the executor nor the worker loop handles: the lock is
\* released and the task runs its `finally`; command_item stays unresolved
WorkerCrashes(w) ==
    /\ lock' = NoTask
    /\ wpc' = [wpc EXCEPT ![w] = "fin_crash"]
    /\ UNCHANGED <<queueVars, workerTask, wcmd, wcancel, execOrder>>

\* _ensure_connected has to establish a connection
WorkerConnect(w) ==
    /\ wpc[w] = "connect"
    /\ ~wcancel[w]
    /\ \/ /\ EnsureConnectedOk
          /\ wpc' = [wpc EXCEPT ![w] = "write"]
          /\ UNCHANGED <<queueVars, workerTask, wcmd, wcancel, execOrder, lock>>
       \/ /\ EnsureConnectedFail
          /\ ExecutorReturns(w, FALSE)
    /\ UNCHANGED <<pollVars, spc, deviceState, harnessVars>>

\* _write_gatt_with_retry of the command bytes
WorkerWrite(w) ==
    /\ wpc[w] = "write"
    /\ ~wcancel[w]
    /\ \/ \* written (after a reconnect when the link was lost)
          /\ client' = "ready"
          /\ \E t \in CmdTypes :
               IF t = "Change"
               THEN /\ wpc' = [wpc EXCEPT ![w] = "verify"]
                    /\ UNCHANGED <<queueVars, workerTask, wcmd, wcancel, execOrder,
                                   lock, idleExpired>>
               ELSE /\ idleExpired' = FALSE
                    /\ ExecutorReturns(w, TRUE)
       \/ \* all attempts failed, or the reconnect failed: return False
          /\ client' = IF client \in {"ready", "noserv"} THEN client ELSE "none"
          /\ idleExpired' = idleExpired
          /\ ExecutorReturns(w, FALSE)
       \/ \* TimeoutError / OSError: caught, force disconnect, return False
          /\ "OSError" \in ExecutorCatches
          /\ DisconnectSafely
          /\ idleExpired' = idleExpired
          /\ ExecutorReturns(w, FALSE)
       \/ \* the handle was cleared during the write delay: AttributeError
          /\ client = "none"
          /\ "AttributeError" \notin ExecutorCatches \cup WorkerCatches
          /\ UNCHANGED <<client, idleExpired>>
          /\ WorkerCrashes(w)
    /\ UNCHANGED <<healthVars, pollVars, spc, deviceState, harnessVars>>

\* the follow-up of a Change command: Get Status write, read, decrypt
WorkerVerify(w) ==
    /\ wpc[w] = "verify"
    /\ ~wcancel[w]
    /\ \/ \* status write failed, empty read, or a transport error (logged)
          /\ idleExpired' = FALSE
          /\ ExecutorReturns(w, TRUE)
          /\ UNCHANGED deviceState
       \/ \E p \in WirePayloads :
            LET d == Decrypt(p, deviceState) IN
            /\ deviceState' = d.state
            /\ IF d.raised = "none"
               THEN idleExpired' = FALSE /\ ExecutorReturns(w, TRUE)
               ELSE IF d.raised \in ExecutorCatches
               THEN idleExpired' = FALSE /\ ExecutorReturns(w, TRUE)
               ELSE idleExpired' = idleExpired /\ WorkerCrashes(w)
    /\ UNCHANGED <<client, healthVars, pollVars, spc, harnessVars>>

\* queue.get() timed out after 60 s: disconnect when idle for too long
WorkerIdleTimeout(w) ==
    /\ wpc[w] = "get"
    /\ ~wcancel[w]
    /\ queue = << >>
    /\ idleExpired
    /\ client # "none"
    /\ DisconnectSafely
    /\ UNCHANGED <<queueVars, workerVars, lock, idleExpired, healthVars, pollVars,
                   spc, deviceState, harnessVars>>

\* the cancellation handler's loop: every queued future still pending -> False
DrainFutures_FirstOnly(f, q) ==
    IF q = << >> THEN f ELSE SetResult(f, Head(q), "false")

RECURSIVE DrainFutures(_, _)
DrainFutures(f, q) ==
    IF q = << >> THEN f ELSE DrainFutures(SetResult(f, Head(q), "false"), Tail(q))

\* CancelledError is delivered at the await the worker is suspended in
WorkerCancelled(w) ==
    /\ wcancel[w]
    /\ wpc[w] \in {"get", "lockwait"} \cup WorkerLockedPcs
    /\ lock' = IF lock = w THEN NoTask ELSE lock
    /\ fut' = DrainFutures(fut, queue)
    /\ queue' = << >>
    /\ wpc' = [wpc EXCEPT ![w] = "fin_cancel"]
    /\ wcancel' = [wcancel EXCEPT ![w] = FALSE]
    /\ UNCHANGED <<ret, workerTask, wcmd, execOrder, client, idleExpired,
                   healthVars, pollVars, spc, deviceState, harnessVars>>

\* cancel() reached the task before its first step: CancelledError is thrown
\* into a coroutine that has not entered its `try`, so neither the
\* cancellation handler nor the `finally` runs and the task is done
WorkerCancelledUnstarted(w) ==
    /\ wcancel[w]
    /\ wpc[w] \in WorkerNewPcs
    /\ wpc' = [wpc EXCEPT ![w] = "cancelled"]
    /\ wcancel' = [wcancel EXCEPT ![w] = FALSE]
    /\ spc' = IF spc = "worker" /\ w = workerTask THEN "worker_done" ELSE spc
    /\ UNCHANGED <<queueVars, workerTask, wcmd, execOrder, lock, client,
                   idleExpired, healthVars, pollVars, deviceState, harnessVars>>

\* `finally: await self._disconnect_safely()`, then the task is done
WorkerFinally(w) ==
    /\ wpc[w] \in {"fin_cancel", "fin_crash"}
    /\ DisconnectSafely
    /\ wpc' = [wpc EXCEPT ![w] = IF wpc[w] = "fin_cancel" THEN "cancelled"
                                 ELSE "crashed"]
    /\ wcancel' = [wcancel EXCEPT ![w] = FALSE]
    /\ spc' = IF spc = "worker" /\ w = workerTask THEN "worker_done" ELSE spc
    /\ UNCHANGED <<queueVars, workerTask, wcmd, execOrder, lock, idleExpired,
                   healthVars, pollVars, deviceState, harnessVars>>


\* ================================================================ _poll_loop
\* exceptions the poll iteration's two handlers turn into
\* _last_poll_success = False (UnicodeDecodeError is a ValueError)
PollCatches ==
    {"BleakError", "TimeoutError", "OSError", "JSONDecodeError", "AttributeError",
     "KeyError", "ValueError", "UnicodeDecodeError"}

\* `if not self._command_queue.empty(): sleep; continue`
PollSkips == queue # << >>

\* `async with self._client_lock` of the poll: may it enter now?
PollMayEnter_NoLock == TRUE

PollMayEnter == lock = NoTask

\* the iteration ends: lock released, `finally: _poll_in_progress = False`,
\* then sleep(_poll_interval)
PollIterationEnds(success) ==
    /\ lock' = NoTask
    /\ lastPollSuccess' = success
    /\ pollInProgress' = FALSE
    /\ ppc' = "sleep"
    /\ pcancel' = pcancel

\* an exception no handler of the loop names: the task ends
PollCrashes ==
    /\ lock' = NoTask
    /\ pollInProgress' = FALSE
    /\ ppc' = "crashed"
    /\ UNCHANGED <<pcancel, lastPollSuccess>>

\* top of an iteration, after the sleep
PollCheck ==
    /\ ppc = "sleep"
    /\ ~pcancel
    /\ IF PollSkips
       THEN UNCHANGED <<pollVars, lock>>
       ELSE \/ \* no BLE device known
               /\ lastPollSuccess' = FALSE
               /\ UNCHANGED <<ppc, pcancel, pollInProgress, lock>>
            \/ /\ pollInProgress' = TRUE
               /\ IF PollMayEnter
                  THEN lock' = PollTask /\ ppc' = EnterPc
                  ELSE lock' = lock /\ ppc' = "lockwait"
               /\ UNCHANGED <<pcancel, lastPollSuccess>>
    /\ UNCHANGED <<queueVars, workerVars, client, idleExpired, healthVars, spc,
                   deviceState, harnessVars>>

\* the poll gets the lock it was waiting for
PollAcquire ==
    /\ ppc = "lockwait"
    /\ ~pcancel
    /\ PollMayEnter
    /\ lock' = PollTask
    /\ ppc' = EnterPc
    /\ UNCHANGED <<queueVars, workerVars, client, idleExpired, healthVars, pcancel,
                   pollInProgress, lastPollSuccess, spc, deviceState, harnessVars>>

PollConnect ==
    /\ ppc = "connect"
    /\ ~pcancel
    /\ \/ /\ EnsureConnectedOk
          /\ ppc' = "write"
          /\ UNCHANGED <<lock, pcancel, pollInProgress, lastPollSuccess>>
       \/ /\ EnsureConnectedFail
          /\ PollIterationEnds(FALSE)
    /\ UNCHANGED <<queueVars, workerVars, spc, deviceState, harnessVars>>

\* _write_gatt_with_retry of the Get Status request
PollWrite ==
    /\ ppc = "write"
    /\ ~pcancel
    /\ \/ /\ client' = "ready"
          /\ ppc' = "read"
          /\ UNCHANGED <<lock, pcancel, pollInProgress, lastPollSuccess>>
       \/ \* attempts exhausted, reconnect failed
          /\ client' = IF client \in {"ready", "noserv"} THEN client ELSE "none"
          /\ PollIterationEnds(FALSE)
       \/ \* TimeoutError / OSError, or AttributeError on a cleared handle
          /\ {"OSError", "AttributeError"} \subseteq PollCatches
          /\ client' = client
          /\ PollIterationEnds(FALSE)
    /\ UNCHANGED <<queueVars, workerVars, idleExpired, healthVars, spc, deviceState,
                   harnessVars>>

\* _read_gatt_with_retry and decrypt
PollRead ==
    /\ ppc = "read"
    /\ ~pcancel
    /\ \/ \* nothing read, or a transport error
          /\ PollIterationEnds(FALSE)
          /\ UNCHANGED <<deviceState, idleExpired>>
       \/ \E p \in WirePayloads :
            LET d == Decrypt(p, deviceState) IN
            /\ deviceState' = d.state
            /\ IF d.raised = "none"
               THEN idleExpired' = FALSE /\ PollIterationEnds(TRUE)
               ELSE IF d.raised \in PollCatches
               THEN idleExpired' = idleExpired /\ PollIterationEnds(FALSE)
               ELSE idleExpired' = idleExpired /\ PollCrashes
    /\ UNCHANGED <<queueVars, workerVars, client, healthVars, spc, harnessVars>>

LockReleasedBy_Kept(task, l) == l

\* leaving `async with self._client_lock` by an exception: __aexit__ releases
\* the lock if the task owns it
LockReleasedBy(task, l) == IF l = task THEN NoTask ELSE l

\* stop_polling's cancel() is delivered at the await the loop is suspended in
PollCancelled ==
    /\ pcancel
    /\ ppc \in {"sleep", "lockwait"} \cup PollLockedPcs
    /\ lock' = LockReleasedBy(PollTask, lock)
    /\ pollInProgress' = FALSE
    /\ ppc' = "cancelled"
    /\ pcancel' = FALSE
    /\ spc' = IF spc = "poll" THEN "poll_done" ELSE spc
    /\ UNCHANGED <<queueVars, workerVars, client, idleExpired, healthVars,
                   lastPollSuccess, deviceState, harnessVars>>

\* ======================================================= _health_check_loop
HealthDisconnects_ServicesOnly == client = "noserv"

\* what a health check finds wrong with the connection
HealthDisconnects == idleExpired \/ client = "noserv"

HealthCheck ==
    /\ hpc = "sleep"
    /\ ~hcancel
    /\ HealthDisconnects
    /\ client # "none"
    /\ DisconnectSafely
    /\ UNCHANGED <<queueVars, workerVars, lock, idleExpired, healthVars, pollVars,
                   spc, deviceState, harnessVars>>

HealthCancelled ==
    /\ hcancel
    /\ hpc = "sleep"
    /\ hpc' = "done"
    /\ hcancel' = FALSE
    /\ spc' = IF spc = "health" THEN "health_done" ELSE spc
    /\ UNCHANGED <<queueVars, workerVars, lock, client, idleExpired, pollVars,
                   deviceState, harnessVars>>


\* =========================================================== async_shutdown
\* the last part: cancel the health monitor and await it, or disconnect at once
StopHealthOnward ==
    IF HealthAlive
    THEN /\ hcancel' = TRUE
         /\ spc' = "health"
         /\ UNCHANGED <<hpc, client>>
    ELSE /\ DisconnectSafely
         /\ spc' = "done"
         /\ UNCHANGED healthVars

\* the middle part: cancel the queue worker and await it
StopWorkerOnward ==
    IF workerTask # NoTask /\ ~WorkerDone(workerTask)
    THEN /\ wcancel' = [wcancel EXCEPT ![workerTask] = TRUE]
         /\ spc' = "worker"
         /\ UNCHANGED <<healthVars, client>>
    ELSE /\ wcancel' = wcancel
         /\ StopHealthOnward

\* stop_polling(): cancel the poll task and await it
ShutdownStart ==
    /\ spc = "idle"
    /\ IF PollAlive
       THEN /\ pcancel' = TRUE
            /\ spc' = "poll"
            /\ UNCHANGED <<wcancel, healthVars, client>>
       ELSE /\ pcancel' = pcancel
            /\ StopWorkerOnward
    /\ UNCHANGED <<queueVars, workerTask, wpc, wcmd, execOrder, lock, idleExpired,
                   ppc, pollInProgress, lastPollSuccess, deviceState, harnessVars>>

\* the poll task has ended: async_shutdown resumes, after the first step of
\* every task that was queued before its wake-up
ShutdownAfterPoll ==
    /\ spc = "poll_done"
    /\ \A w \in Workers : wpc[w] # "new"
    /\ StopWorkerOnward
    /\ UNCHANGED <<queueVars, workerTask, wpc, wcmd, execOrder, lock, idleExpired,
                   pollVars, deviceState, harnessVars>>

\* the worker task has ended
ShutdownAfterWorker ==
    /\ spc = "worker_done"
    /\ StopHealthOnward
    /\ UNCHANGED <<queueVars, workerVars, lock, idleExpired, pollVars, deviceState,
                   harnessVars>>

\* the health monitor has ended: final _disconnect_safely()
ShutdownAfterHealth ==
    /\ spc = "health_done"
    /\ DisconnectSafely
    /\ spc' = "done"
    /\ UNCHANGED <<queueVars, workerVars, lock, idleExpired, healthVars, pollVars,
                   deviceState, harnessVars>>

\* ============================================================== environment
\* time passes: the last activity is now more than the idle timeout ago
Tick ==
    /\ ~idleExpired
    /\ idleExpired' = TRUE
    /\ UNCHANGED <<queueVars, workerVars, lock, client, healthVars, pollVars, spc,
                   deviceState, harnessVars>>

\* the link silently loses its service table (a link that reports itself
\* disconnected is covered by the failure outcomes of the write and read steps)
LinkDrop ==
    /\ client = "ready"
    /\ client' = "noserv"
    /\ UNCHANGED <<queueVars, workerVars, lock, idleExpired, healthVars, pollVars,
                   spc, deviceState, harnessVars>>

\* ============================================================ specification
NotCalled == DecryptOutcome("not called", EmptyDeviceState, EmptyDeviceState, FALSE)

\* the object after __init__ and async_setup_entry's start_polling
Init ==
    /\ queue = << >>
    /\ fut = [c \in Cmds |-> "none"]
    /\ ret = [c \in Cmds |-> "idle"]
    /\ workerTask = NoTask
    /\ wpc = [w \in Workers |-> "none"]
    /\ wcmd = [w \in Workers |-> 0]
    /\ wcancel = [w \in Workers |-> FALSE]
    /\ execOrder = << >>
    /\ lock = NoTask
    /\ client = "none"
    /\ idleExpired = TRUE
    /\ hpc = "none"
    /\ hcancel = FALSE
    /\ ppc = "sleep"
    /\ pcancel = FALSE
    /\ pollInProgress = FALSE
    /\ lastPollSuccess = FALSE
    /\ spc = "idle"
    /\ deviceState = EmptyDeviceState
    /\ dPayload = ValidPayload
    /\ dResult = NotCalled
    /\ updateListeners = << >>
    /\ dLog = << >>
    /\ deviceDelays = NoDelays
    /\ streak = NoStreaks
    /\ lastSuccess = NoSuccess
    /\ conn = NoConn
    /\ call = NoCall
    /\ EntityAtRest

Next ==
    \/ \E c \in Cmds : SendCommand(c)
    \/ \E c \in Cmds : SendCommandReturn(c)
    \/ \E c \in Cmds : SendCommandTimeout(c)
    \/ \E w \in Workers : WorkerStart(w)
    \/ \E w \in Workers : WorkerDequeue(w)
    \/ \E w \in Workers : WorkerAcquire(w)
    \/ \E w \in Workers : WorkerConnect(w)
    \/ \E w \in Workers : WorkerWrite(w)
    \/ \E w \in Workers : WorkerVerify(w)
    \/ \E w \in Workers : WorkerIdleTimeout(w)
    \/ \E w \in Workers : WorkerCancelled(w)
    \/ \E w \in Workers : WorkerCancelledUnstarted(w)
    \/ \E w \in Workers : WorkerFinally(w)
    \/ PollCheck
    \/ PollAcquire
    \/ PollConnect
    \/ PollWrite
    \/ PollRead
    \/ PollCancelled
    \/ HealthCheck
    \/ HealthCancelled
    \/ ShutdownStart
    \/ ShutdownAfterPoll
    \/ ShutdownAfterWorker
    \/ ShutdownAfterHealth
    \/ Tick
    \/ LinkDrop

Spec == Init /\ [][Next]_vars

\* The event loop runs a caller whose future is resolved and fires the 30 s
\* timer of a caller that still waits; nothing else is assumed to make progress.
LiveSpec ==
    /\ Spec
    /\ \A c \in Cmds : WF_vars(SendCommandReturn(c)) /\ WF_vars(SendCommandTimeout(c))


\* =================================================================== claims

\* C1: for any number of concurrent send_command callers at most one queued
\* command is in flight: at most one worker is between dequeuing a command and
\* leaving _execute_command_safely, and a worker is inside the transport
\* sequence (ensure-connected, command write, follow-up status write/read)
\* only while it owns the client lock.
C1_AtMostOneInFlight ==
    /\ Cardinality({w \in Workers : Executing(w)}) <= 1
    /\ \A w \in Workers : wpc[w] \in WorkerLockedPcs => lock = w

\* C1 witness: a command is in its follow-up status read while another command
\* waits in the queue.
C1_Witness == \E w \in Workers : wpc[w] = "verify" /\ queue # << >>

\* C2: commands are executed in FIFO order. Command ids are given in the order
\* of the send_command calls, so the commands enter _execute_command_safely in
\* ascending order, and a command enters only when every command that entered
\* before it has left.
C2_FifoOrder ==
    /\ \A i, j \in DOMAIN execOrder : i < j => execOrder[i] < execOrder[j]
    /\ \A i \in DOMAIN execOrder :
         i < Len(execOrder) =>
            ~\E w \in Workers : Executing(w) /\ wcmd[w] = execOrder[i]

\* C2 witness: two commands were executed one after the other.
C2_Witness == Len(execOrder) = 2 /\ \A w \in Workers : ~Executing(w)

\* C5: the poll's transport sequence and the executor's execution of a
\* command never overlap; each runs only while it owns the client lock.
C5_PollExecutorExclusive ==
    /\ ~(ppc \in PollLockedPcs /\ \E w \in Workers : wpc[w] \in WorkerLockedPcs)
    /\ ppc \in PollLockedPcs => lock = PollTask
    /\ \A w \in Workers : wpc[w] \in WorkerLockedPcs => lock = w

\* C5 witness: the executor waits for the lock while the poll is reading.
C5_Witness == ppc = "read" /\ \E w \in Workers : wpc[w] = "lockwait"

\* C4 (as claimed): whenever a worker stops executing a command for any reason
\* but its own cancellation, the command's future is resolved and the worker
\* is back at the top of its loop.
C4_FailedCommandResolved ==
    [][\A w \in Workers :
          (Executing(w) /\ ~Executing(w)' /\ ~wcancel[w]) =>
             (wpc'[w] = "get" /\ fut'[wcmd[w]] # "pending")]_vars

\* C6 (as claimed): the poll never begins its transport sequence while a
\* command is waiting in the queue.
C6_PollNeverStartsWithQueuedCommand ==
    [][(ppc \notin PollLockedPcs /\ ppc' \in PollLockedPcs) => queue = << >>]_vars

\* C7 (as claimed): the health monitor and the worker's idle-timeout
\* disconnect clear the client handle only while no task owns the client lock.
C7_NoDisconnectUnderForeignLock ==
    [][(HealthCheck \/ \E w \in Workers : WorkerIdleTimeout(w)) => lock = NoTask]_vars

\* C8 (as claimed): the step in which a worker's cancellation takes effect
\* resolves every command still in the queue (to False, unless the caller's
\* wait had already expired) and leaves the queue empty, and the connection is
\* not yet touched by that step.
C8_DrainThenDisconnect ==
    [][\A w \in Workers :
          (wcancel[w] /\ wpc[w] # "fin_cancel" /\ wpc'[w] \in {"fin_cancel", "cancelled"}) =>
             /\ queue' = << >>
             /\ \A i \in DOMAIN queue : fut'[queue[i]] \in {"false", "cancelled"}
             /\ client' = client]_vars

\* C8 (what the code does): a worker whose coroutine has started handles its
\* cancellation by resolving every queued command (to False, unless the
\* caller's wait had already expired) and emptying the queue, and the
\* connection is not touched by that step: the disconnect follows in the
\* task's `finally`.
C8_StartedWorkerDrains ==
    [][\A w \in Workers :
          (wpc[w] # "fin_cancel" /\ wpc'[w] = "fin_cancel") =>
             /\ queue' = << >>
             /\ \A i \in DOMAIN queue : fut'[queue[i]] \in {"false", "cancelled"}
             /\ \A i \in DOMAIN queue :
                  fut[queue[i]] = "pending" => fut'[queue[i]] = "false"
             /\ client' = client]_vars

\* C8 witness: a worker was cancelled while executing command 1 and before its
\* disconnect; command 2, never executed, was resolved False by the drain.
C8_Witness ==
    \E w \in Workers :
        /\ wpc[w] = "fin_cancel" /\ wcmd[w] = 1
        /\ fut[2] = "false" /\ ret[2] = "waiting"
        /\ \A i \in DOMAIN execOrder : execOrder[i] # 2
        /\ client # "none"

\* C9 (as claimed): when async_shutdown has completed, the command that was in
\* flight in the cancelled worker has its future resolved.
C9_InFlightResolvedAtShutdown ==
    spc = "done" =>
        \A w \in Workers :
            (wpc[w] = "cancelled" /\ wcmd[w] # 0) => fut[wcmd[w]] # "pending"


\* C3: every send_command call returns a boolean and does not stay pending:
\* it returns the executor's result when the future was resolved, False when
\* the 30 s wait expired, and every call that waits eventually returns.
C3_SendCommandReturns ==
    /\ [](\A c \in Cmds :
            ret[c] \in {"true", "false"} =>
                \/ fut[c] = "cancelled" /\ ret[c] = "false"
                \/ fut[c] = ret[c])
    /\ \A c \in Cmds : (ret[c] = "waiting") ~> (ret[c] \in {"true", "false"})

\* C3 witness: one call returned the executor's True, another returned False
\* because its wait expired.
C3_Witness ==
    \E c, d \in Cmds :
        /\ ret[c] = "true" /\ fut[c] = "true"
        /\ ret[d] = "false" /\ fut[d] = "cancelled"


\* ========================================================== decoder harness
\* decrypt applied to bounded payloads, one call after another
ZoneKeys == {"0", "1", "x"}

ZoneInfos ==
    {ZoneInfo(k, l, 5, a) : k \in ZoneKeys, l \in {15, 16}, a \in {0, 4}}

\* a JSON object has each key once
DistinctKeys(z) == \A i, j \in DOMAIN z : i # j => z[i].key # z[j].key

ZstsMappings ==
    {z \in UNION {[1..n -> ZoneInfos] : n \in 0..MaxZoneEntries} : DistinctKeys(z)}

DecodePayloads ==
    {Payload("bad_utf8", FALSE, NoZsts), Payload("bad_json", FALSE, NoZsts),
     Payload("scalar", FALSE, NoZsts),
     Payload("string", FALSE, NoZsts), Payload("string", TRUE, NoZsts),
     Payload("array", FALSE, NoZsts), Payload("array", TRUE, NoZsts),
     Payload("object", FALSE, NoZsts)}
    \cup {Payload("object", TRUE, z) : z \in ZstsMappings}

concurrencyVars ==
    <<queueVars, workerVars, lock, client, idleExpired, healthVars, pollVars, spc>>

InitDecode ==
    /\ queue = << >>
    /\ fut = [c \in Cmds |-> "none"]
    /\ ret = [c \in Cmds |-> "idle"]
    /\ workerTask = NoTask
    /\ wpc = [w \in Workers |-> "none"]
    /\ wcmd = [w \in Workers |-> 0]
    /\ wcancel = [w \in Workers |-> FALSE]
    /\ execOrder = << >>
    /\ lock = NoTask
    /\ client = "none"
    /\ idleExpired = TRUE
    /\ hpc = "none"
    /\ hcancel = FALSE
    /\ ppc = "sleep"
    /\ pcancel = FALSE
    /\ pollInProgress = FALSE
    /\ lastPollSuccess = FALSE
    /\ spc = "idle"
    /\ deviceState = EmptyDeviceState
    /\ dPayload \in DecodePayloads
    /\ dResult = NotCalled
    /\ updateListeners = << >>
    /\ dLog = << >>
    /\ deviceDelays = NoDelays
    /\ streak = NoStreaks
    /\ lastSuccess = NoSuccess
    /\ conn = NoConn
    /\ call = NoCall
    /\ EntityAtRest

\* decrypt(dPayload)
DecodeCall ==
    /\ dResult.raised = "not called"
    /\ dResult' = DecryptNotify(dPayload, deviceState, updateListeners).outcome
    /\ dLog' = DecryptNotify(dPayload, deviceState, updateListeners).log
    /\ deviceState' = dResult'.state
    /\ UNCHANGED <<concurrencyVars, dPayload, updateListeners, deviceDelays, streak, lastSuccess, conn, call, entityVars>>

\* the next payload is read
DecodeNextPayload ==
    /\ dResult.raised # "not called"
    /\ dPayload' \in DecodePayloads
    /\ dResult' = NotCalled
    /\ dLog' = << >>
    /\ UNCHANGED <<concurrencyVars, deviceState, updateListeners, deviceDelays, streak, lastSuccess, conn, call, entityVars>>

\* zones and configuration records of the Get Config fetches explored
ConfigZones == {0, 1}
ConfigValues == {"cfgA", "cfgB"}

\* _fetch_zone_configurations stores one zone's parsed Get Config response:
\* `self._device_state["zone_configs"][zone] = {...}` (no await between the
\* creation of the dict and the store)
DecodeFetchConfig ==
    /\ \E zone \in ConfigZones, cfg \in ConfigValues :
         deviceState' = [deviceState EXCEPT
                            !.zone_configs = DictSet(@, zone, cfg)]
    /\ deviceState' # deviceState
    /\ UNCHANGED <<concurrencyVars, harnessVars>>

NextDecode == DecodeCall \/ DecodeNextPayload \/ DecodeFetchConfig

SpecDecode == InitDecode /\ [][NextDecode]_vars

\* the payload is not parsable as JSON, or its JSON value has no Z_sts key
LacksZsts(data) ==
    JsonLoadsError(data) # "none" \/ data.kind # "object" \/ ~data.has

\* C10 (as claimed): for every payload that is not parsable as JSON or lacks
\* the Z_sts key, decrypt raises nothing and returns the default state
\* {available_zones: [0], zones: {0: {}}}.
C10_DecodeFailsSoft ==
    (dResult.raised # "not called" /\ LacksZsts(dPayload)) =>
        (dResult.raised = "none" /\ dResult.value = DefaultState)


\* C11: zone_configs is invariant under decrypt: every decrypt call, whether it
\* applies a new state, returns the fail-soft default or raises, leaves the
\* canonical state's zone_configs exactly as they were before the call; only
\* a Get Config fetch changes them.
C11_ZoneConfigsPreserved ==
    [][(dResult.raised = "not called" /\ dResult'.raised # "not called") =>
          deviceState'.zone_configs = deviceState.zone_configs]_vars

\* C11 witness: a decode replaced the zone data of a state that holds the
\* configurations of two zones.
C11_Witness ==
    /\ dResult.raised = "none" /\ dResult.notify
    /\ deviceState.available_zones = <<0, 1>>
    /\ DOMAIN deviceState.zone_configs = {0, 1}

\* the zone ids of a Z_sts mapping whose status array has at least 16 elements
ValidZoneIds(zsts) ==
    {ZoneKeyInt(zsts[i].key).n :
        i \in {j \in DOMAIN zsts : ZoneKeyInt(zsts[j].key).ok /\ zsts[j].len >= 16}}

ConcurrencyAtRest ==
    /\ queue = << >>
    /\ fut = [c \in Cmds |-> "none"]
    /\ ret = [c \in Cmds |-> "idle"]
    /\ workerTask = NoTask
    /\ wpc = [w \in Workers |-> "none"]
    /\ wcmd = [w \in Workers |-> 0]
    /\ wcancel = [w \in Workers |-> FALSE]
    /\ execOrder = << >>
    /\ lock = NoTask
    /\ client = "none"
    /\ idleExpired = TRUE
    /\ hpc = "none"
    /\ hcancel = FALSE
    /\ ppc = "sleep"
    /\ pcancel = FALSE
    /\ pollInProgress = FALSE
    /\ lastPollSuccess = FALSE
    /\ spc = "idle"

\* payloads of the listener harness: two decodable statuses with different
\* zones and the malformed ones
NotifyPayloads ==
    WirePayloads \cup
    {Payload("object", TRUE, <<ZoneInfo("0", 16, 5, 4), ZoneInfo("1", 16, 2, 2)>>)}

InitNotify ==
    /\ ConcurrencyAtRest
    /\ deviceState = EmptyDeviceState
    /\ dPayload \in NotifyPayloads
    /\ dResult = NotCalled
    /\ updateListeners = << >>
    /\ dLog = << >>
    /\ deviceDelays = NoDelays
    /\ streak = NoStreaks
    /\ lastSuccess = NoSuccess
    /\ conn = NoConn
    /\ call = NoCall
    /\ EntityAtRest

\* async_subscribe_updates(callback)
Subscribe ==
    /\ dResult.raised = "not called"
    /\ Len(updateListeners) < MaxListeners
    /\ \E kind \in ListenerKinds : updateListeners' = Append(updateListeners, kind)
    /\ UNCHANGED <<concurrencyVars, deviceState, dPayload, dResult, dLog,
                   deviceDelays, streak, lastSuccess, conn, call, entityVars>>

\* the _unsubscribe closure of the i-th subscription
Unsubscribe ==
    /\ dResult.raised = "not called"
    /\ \E i \in DOMAIN updateListeners :
         updateListeners' = RemoveAt(updateListeners, i)
    /\ UNCHANGED <<concurrencyVars, deviceState, dPayload, dResult, dLog,
                   deviceDelays, streak, lastSuccess, conn, call, entityVars>>

\* _start_update(service_info): an advertisement is seen
StartUpdate ==
    /\ dResult.raised = "not called"
    /\ LET n == NotifyUpdate(updateListeners, 1, << >>, deviceState)
       IN /\ dResult' = DecryptOutcome(n.raised, deviceState, deviceState, TRUE)
          /\ dLog' = n.log
    /\ UNCHANGED <<concurrencyVars, deviceState, dPayload, updateListeners,
                   deviceDelays, streak, lastSuccess, conn, call, entityVars>>

\* the next status payload arrives
NotifyNextPayload ==
    /\ dResult.raised # "not called"
    /\ dPayload' \in NotifyPayloads
    /\ dResult' = NotCalled
    /\ dLog' = << >>
    /\ UNCHANGED <<concurrencyVars, deviceState, updateListeners, deviceDelays, streak, lastSuccess, conn, call, entityVars>>

NextNotify ==
    \/ Subscribe
    \/ Unsubscribe
    \/ DecodeCall
    \/ StartUpdate
    \/ NotifyNextPayload

SpecNotify == InitNotify /\ [][NextNotify]_vars

\* the listeners whose body the last notification ran
Invoked == {dLog[k].listener : k \in DOMAIN dLog}

\* C13: a decode that returns normally after decoding a status has replaced
\* the canonical state by the decoded one and has run every subscribed
\* listener exactly once, each seeing the new state.
C13_EveryListenerNotifiedOnce ==
    [][(DecodeCall /\ dResult'.raised = "none" /\ dResult'.notify) =>
          /\ deviceState' = dResult'.value
          /\ \A i \in DOMAIN updateListeners :
                Cardinality({k \in DOMAIN dLog' : dLog'[k].listener = i}) = 1
          /\ \A k \in DOMAIN dLog' : dLog'[k].saw = deviceState']_vars

\* a decode returned normally although the first listener raised KeyError;
\* the second listener was not run
C13_Witness ==
    /\ dResult.raised = "none" /\ dResult.notify
    /\ dResult.value # EmptyDeviceState
    /\ updateListeners = <<"KeyError", "ok">>
    /\ Invoked = {1}

\* C14: in one notification every subscribed listener is invoked, whatever
\* the listeners before it raised, and no listener's error reaches the code
\* that triggered the notification.
C14_ListenerErrorsIsolated ==
    dResult.notify =>
        /\ Invoked = DOMAIN updateListeners
        /\ dResult.raised = "none"

\* the first listener raised RuntimeError: it left the trigger and the
\* second listener was not run
C14_Witness ==
    /\ dResult.notify /\ dResult.raised = "RuntimeError"
    /\ updateListeners = <<"RuntimeError", "ok">>
    /\ Invoked = {1}

\* ======================================================= delay-table harness
\* Failures and successes recorded on the (address, operation) entries, as
\* the read, write, connect and auth sites do.
InitDelay ==
    /\ ConcurrencyAtRest
    /\ deviceState = EmptyDeviceState
    /\ dPayload = ValidPayload
    /\ dResult = NotCalled
    /\ updateListeners = << >>
    /\ dLog = << >>
    /\ deviceDelays = NoDelays
    /\ streak = NoStreaks
    /\ lastSuccess = NoSuccess
    /\ conn = NoConn
    /\ call = NoCall
    /\ EntityAtRest

\* self._increase_operation_delay(hass, address, operation)
RecordFailureOn(address, operation) ==
    /\ deviceDelays[address][operation].failures < MaxFailures
    /\ deviceDelays' = IncreaseOperationDelay(deviceDelays, address, operation)
    /\ streak' = [streak EXCEPT ![address][operation] =
                     IF @ = Broken THEN Broken ELSE @ + 1]
    /\ UNCHANGED <<concurrencyVars, deviceState, dPayload, dResult,
                   updateListeners, dLog, conn, call, entityVars>>

\* self._adjust_operation_delay(hass, address, operation)
RecordSuccessOn(address, operation) ==
    /\ deviceDelays' = AdjustOperationDelay(deviceDelays, address, operation)
    /\ streak' = [streak EXCEPT ![address][operation] =
                     IF deviceDelays[address][operation].present
                     THEN Broken ELSE @]
    /\ UNCHANGED <<concurrencyVars, deviceState, dPayload, dResult,
                   updateListeners, dLog, conn, call, entityVars>>

RecordFailure ==
    /\ \E a \in Addresses, o \in Operations : RecordFailureOn(a, o)
    /\ UNCHANGED lastSuccess

RecordSuccess ==
    /\ \E a \in Addresses, o \in Operations : RecordSuccessOn(a, o)
    /\ UNCHANGED lastSuccess

NextDelay ==
    \/ RecordFailure
    \/ RecordSuccess

SpecDelay == InitDelay /\ [][NextDelay]_vars

\* C15 as stated: after k failures in a row on a fresh entry the count is k
\* and the delay is min(0.5 * 2^k, 6.0) seconds.
C15_DelayDoublesToSixSeconds ==
    \A a \in Addresses, o \in Operations :
        streak[a][o] >= 1 =>
            /\ deviceDelays[a][o].failures = streak[a][o]
            /\ deviceDelays[a][o].delay =
                   Min(HalfSecond * (2 ^ streak[a][o]), MaxDelay)

\* C15, amended: after k failures in a row on a fresh entry the count is k
\* and the delay is 1 s for k = 1, 2 s for k = 2 and 4 s for every k >= 3,
\* which is min(0.5 * 2^min(k, 3), 6.0).
C15_DelayDoublesToFourSeconds ==
    \A a \in Addresses, o \in Operations :
        streak[a][o] >= 1 =>
            /\ deviceDelays[a][o].failures = streak[a][o]
            /\ GetOperationDelay(deviceDelays, a, o) =
                   CASE streak[a][o] = 1 -> DelayUnit
                     [] streak[a][o] = 2 -> 2 * DelayUnit
                     [] OTHER -> 4 * DelayUnit

\* four failures in a row on a fresh entry
C15_Witness ==
    /\ streak["addrA"]["write"] = 4
    /\ deviceDelays["addrA"]["write"].failures = 4
    /\ deviceDelays["addrA"]["write"].delay = 4 * DelayUnit

\* the entry of (a, o)
Entry(a, o) == deviceDelays[a][o]

\* The operations of one device, remembering what each success found.
TrackedFailure ==
    /\ \E o \in Operations : RecordFailureOn("addrA", o)
    /\ lastSuccess' = NoSuccess

TrackedSuccess ==
    \E o \in Operations :
        /\ RecordSuccessOn("addrA", o)
        /\ lastSuccess' = Success(TRUE, "addrA", o, Entry("addrA", o))

NextAdjust ==
    \/ TrackedFailure
    \/ TrackedSuccess

SpecAdjust == InitDelay /\ [][NextAdjust]_vars

\* C16: every success recorded on an entry multiplies its delay by 0.75 and
\* lowers a positive failure count by one, and the delay becomes exactly 0
\* once the count is 0 and the delay is below 0.1 s.
C16_SuccessDecays ==
    (lastSuccess.recorded /\ lastSuccess.before.present) =>
        LET before == lastSuccess.before
            after == Entry(lastSuccess.address, lastSuccess.operation)
        IN /\ after.failures = Max(0, before.failures - 1)
           /\ IF after.failures = 0 /\ 30 * before.delay < 4 * DelayUnit
              THEN after.delay = 0
              ELSE 4 * after.delay = 3 * before.delay

\* one failure and two successes: the second success found the count at 0
\* and left the delay at 0.75 s
C16_Witness ==
    /\ lastSuccess.recorded
    /\ lastSuccess.address = "addrA" /\ lastSuccess.operation = "write"
    /\ lastSuccess.before = Entry("addrA", "write")
    /\ Entry("addrA", "write").present
    /\ Entry("addrA", "write").failures = 0
    /\ 4 * Entry("addrA", "write").delay = 3 * DelayUnit

\* C17: recording a failure or a success for one (address, operation) pair
\* leaves the entry of every other pair as it was.
C17_OtherEntriesUnchanged ==
    [][\A a \in Addresses, o \in Operations :
          (RecordFailureOn(a, o) \/ RecordSuccessOn(a, o)) =>
              \A a2 \in Addresses, o2 \in TableOperations :
                  <<a2, o2>> # <<a, o>> =>
                      /\ Entry(a2, o2)' = Entry(a2, o2)
                      /\ GetOperationDelay(deviceDelays', a2, o2) =
                             GetOperationDelay(deviceDelays, a2, o2)]_vars

\* three failures and a success on (addrA, write) next to the untouched
\* single failure on (addrB, write) and on (addrA, read)
C17_Witness ==
    /\ Entry("addrA", "write") = [present |-> TRUE, failures |-> 2, delay |-> 3 * DelayUnit]
    /\ Entry("addrB", "write") = [present |-> TRUE, failures |-> 1, delay |-> DelayUnit]
    /\ Entry("addrA", "read") = [present |-> TRUE, failures |-> 1, delay |-> DelayUnit]
    /\ Entry("addrB", "read") = Absent

\* C18: every entry's delay stays within [0, 6.0 s] and its count is never
\* negative; a failure never lowers the entry's delay and a success never
\* raises it.
C18_DelayBoundedAndMonotone ==
    [][\A a \in Addresses, o \in Operations :
          /\ Entry(a, o)'.delay >= 0
          /\ Entry(a, o)'.delay <= MaxDelay
          /\ Entry(a, o)'.failures >= 0
          /\ RecordFailureOn(a, o) => Entry(a, o)'.delay >= Entry(a, o).delay
          /\ RecordSuccessOn(a, o) => Entry(a, o)'.delay <= Entry(a, o).delay]_vars

\* ======================================================= connection harness
\* _ensure_connected and reboot_device called one after the other for the
\* device at addrA, against a peer that may fail at every BLE operation.
InitConnect == InitDelay

\* what the connection harness leaves alone besides the delay table
connectFrame ==
    <<concurrencyVars, deviceState, dPayload, dResult, updateListeners, dLog,
      streak, lastSuccess, entityVars>>

\* the failure can still be counted within the bound
MayFail(operation) == deviceDelays["addrA"][operation].failures < MaxFailures

\* _ensure_connected up to the connect: a connected handle with services is
\* usable as it is; a connected one without services is disconnected first
EnsureCheck ==
    /\ call.fn = "none"
    /\ IF IsConnected(conn) /\ conn.services
       THEN /\ call' = Done("ensure", "true", NoWrite, "none")
            /\ UNCHANGED conn
       ELSE /\ call' = Call("ensure", "connect", 0, "none", NoWrite, "none")
            /\ conn' = IF IsConnected(conn) THEN Released(conn) ELSE conn
    /\ UNCHANGED <<connectFrame, deviceDelays>>

\* `self._client = await self._connect_to_device(ble_device)` and the test
\* that follows; a raised error goes to the handler at the end
EnsureConnect ==
    /\ call.fn = "ensure" /\ call.pc = "connect"
    /\ \E outcome \in ConnectOutcomes :
         LET r == ConnectToDevice(conn, outcome)
             c == AssignReturn(r)
         IN IF r.raised # "none"
            THEN /\ conn' = Released(conn)
                 /\ call' = Done("ensure", "false", NoWrite, "none")
                 /\ UNCHANGED deviceDelays
            ELSE IF ~IsConnected(c)
            THEN /\ MayFail("connect")
                 /\ conn' = c
                 /\ deviceDelays' = IncreaseOperationDelay(deviceDelays, "addrA", "connect")
                 /\ call' = Done("ensure", "false", NoWrite, "none")
            ELSE /\ conn' = c
                 /\ call' = Call("ensure", "auth", 0, "none", NoWrite, "none")
                 /\ UNCHANGED deviceDelays
    /\ UNCHANGED connectFrame

\* one attempt of self.authenticate(self._password) under the retry wrapper,
\* and what _ensure_connected does once the wrapper returns
EnsureAuthenticate ==
    /\ call.fn = "ensure" /\ call.pc = "auth"
    /\ \E r \in ConnectOutcomes, d \in DiscoverOutcomes, w \in AuthWriteOutcomes,
          x \in BOOLEAN :
         LET a == AuthenticateOnce(conn, r, d, w, x)
         IN IF a.ok
            THEN /\ conn' = a.conn
                 /\ deviceDelays' =
                        AdjustOperationDelay(
                            AdjustOperationDelay(deviceDelays, "addrA", "connect"),
                            "addrA", "auth")
                 /\ call' = Done("ensure", "true", NoWrite, "none")
            ELSE IF call.attempt + 1 < AuthRetries
            THEN /\ conn' = a.conn
                 /\ call' = [call EXCEPT !.attempt = @ + 1]
                 /\ UNCHANGED deviceDelays
            ELSE /\ MayFail("auth")
                 /\ deviceDelays' = IncreaseOperationDelay(deviceDelays, "addrA", "auth")
                 /\ conn' = Released(a.conn)
                 /\ call' = Done("ensure", "false", NoWrite, "none")
    /\ UNCHANGED connectFrame

\* reboot_device up to the test after the connect; every return and every
\* caught error passes through the finally block
RebootConnect ==
    /\ call.fn = "none"
    /\ \E outcome \in ConnectOutcomes :
         LET r == ConnectToDevice(conn, outcome)
             c == AssignReturn(r)
         IN IF r.raised # "none"
            THEN /\ conn' = Released(conn)
                 /\ call' = Done("reboot", "false", NoWrite, "none")
            ELSE IF ~IsConnected(c)
            THEN /\ conn' = Released(c)
                 /\ call' = Done("reboot", "false", NoWrite, "none")
            ELSE /\ conn' = c
                 /\ call' = Call("reboot", "auth", 0, "none", NoWrite, "none")
    /\ UNCHANGED <<connectFrame, deviceDelays>>

\* one attempt of `await self.authenticate(self._password)` in reboot_device
RebootAuthenticate ==
    /\ call.fn = "reboot" /\ call.pc = "auth"
    /\ \E r \in ConnectOutcomes, d \in DiscoverOutcomes, w \in AuthWriteOutcomes,
          x \in BOOLEAN :
         LET a == AuthenticateOnce(conn, r, d, w, x)
         IN IF a.ok
            THEN /\ conn' = a.conn
                 /\ call' = Call("reboot", "write", 0, "none", NoWrite, "none")
            ELSE IF call.attempt + 1 < AuthRetries
            THEN /\ conn' = a.conn
                 /\ call' = [call EXCEPT !.attempt = @ + 1]
            ELSE /\ conn' = Released(a.conn)
                 /\ call' = Done("reboot", "false", NoWrite, "none")
    /\ UNCHANGED <<connectFrame, deviceDelays>>

\* the reset write, its handlers and the finally block
RebootWrite ==
    /\ call.fn = "reboot" /\ call.pc = "write"
    /\ \E write \in RebootWrites, discError \in DisconnectErrors :
         /\ (discError # "none") => IsConnected(conn)
         /\ IF RebootWriteRecordsFailure(write)
            THEN /\ MayFail("write")
                 /\ deviceDelays' = IncreaseOperationDelay(deviceDelays, "addrA", "write")
            ELSE UNCHANGED deviceDelays
         /\ conn' = Released(conn)
         /\ call' = Done("reboot", RebootResult(write, discError), write, discError)
    /\ UNCHANGED connectFrame

\* the caller has the result; the next call may start
CallReturns ==
    /\ call.pc = "done"
    /\ call' = NoCall
    /\ UNCHANGED <<connectFrame, deviceDelays, conn>>

\* the peer or the radio ends a link
PeerDisconnects ==
    /\ \/ /\ IsConnected(conn)
          /\ conn' = Conn("client", FALSE, FALSE, conn.orphan)
       \/ /\ conn.orphan
          /\ conn' = [conn EXCEPT !.orphan = FALSE]
    /\ UNCHANGED <<connectFrame, deviceDelays, call>>

NextConnect ==
    \/ EnsureCheck
    \/ EnsureConnect
    \/ EnsureAuthenticate
    \/ RebootConnect
    \/ RebootAuthenticate
    \/ RebootWrite
    \/ CallReturns
    \/ PeerDisconnects

SpecConnect == InitConnect /\ [][NextConnect]_vars

\* C19: when _ensure_connected fails, no connection it opened is still
\* connected and self._client is cleared.
C19_FailureReleasesConnection ==
    (call.fn = "ensure" /\ call.pc = "done" /\ call.result = "false") =>
        /\ conn.handle = "None"
        /\ ~conn.connected
        /\ ~conn.orphan

\* _ensure_connected returned False after a connect that found no services:
\* self._client is False and the client it opened is still connected
C19_Witness ==
    /\ call.fn = "ensure" /\ call.pc = "done" /\ call.result = "false"
    /\ conn.handle = "False"
    /\ conn.orphan

\* C20 as stated: reboot_device returns true whenever the reset write
\* succeeds or fails with a transport error whose text contains 133, whatever
\* the final disconnect raises; the handle is cleared and nothing escapes.
C20_RebootTrueOnAny133 ==
    (call.fn = "reboot" /\ call.pc = "done") =>
        /\ conn.handle = "None"
        /\ call.result \in {"true", "false"}
        /\ (call.write.exc = "none" \/ (call.write.exc \in {"BleakError", "OSError"} /\ call.write.has133))
              => call.result = "true"

\* C20, amended: reboot_device returns true exactly when the reset write
\* succeeds or raises a BleakError whose text contains both "Error" and
\* "133", whatever the final disconnect raises; the handle is cleared and
\* nothing escapes.
C20_RebootTrueOnBleakError133 ==
    (call.fn = "reboot" /\ call.pc = "done") =>
        /\ conn.handle = "None"
        /\ call.result \in {"true", "false"}
        /\ call.result = "true" <=>
              \/ call.write.exc = "none"
              \/ call.write.exc = "BleakError" /\ call.write.hasError /\ call.write.has133

\* the reset write raised BleakError "... Error ... 133 ...", the final
\* disconnect raised too, and reboot_device returned true
C20_Witness ==
    /\ call.fn = "reboot" /\ call.pc = "done" /\ call.result = "true"
    /\ call.write = Write("BleakError", TRUE, TRUE)
    /\ call.discError = "BleakError"
    /\ conn.handle = "None"

\* C21: a poll iteration never raises out of the loop: from inside the locked
\* section the task goes back to its sleep (or is cancelled); an iteration
\* that ends at the connect or at the status write leaves lastPollSuccess
\* false, and lastPollSuccess is true only after a read whose payload was
\* decoded.
C21_PollFailsSoft ==
    [][/\ ppc' # "crashed"
       /\ (ppc \in PollLockedPcs /\ ppc' \notin PollLockedPcs \cup {"cancelled"}) =>
             /\ ppc' = "sleep"
             /\ ppc \in {"connect", "write"} => ~lastPollSuccess'
             /\ lastPollSuccess' => (ppc = "read" /\ ~idleExpired')]_vars

\* the poll task ended on an exception while lastPollSuccess still says true
C21_Witness ==
    /\ ppc = "crashed"
    /\ lastPollSuccess
    /\ lock = NoTask /\ ~pollInProgress

\* ======================================================= capability harness
\* is_mode_available and get_available_fan_speeds asked about zones whose
\* configuration was fetched with bounded MAV masks and FA arrays.
CapZones == {0, 1}
CapModes == 0..15

\* MAV masks: none, all, one mode bit, all but one mode bit
Mavs ==
    {0, 65535} \cup {2 ^ i : i \in CapModes} \cup {65535 - 2 ^ i : i \in CapModes}

\* an FA array of `len` zeros with `byte` at index `mode`
FaWith(len, mode, byte) == [i \in 1..len |-> IF i = mode + 1 THEN byte ELSE 0]

CapConfigs ==
    {Config(mav, DefaultFA) : mav \in Mavs}
    \cup {Config(0, FaWith(16, 15, b)) : b \in 0..255}
    \cup {Config(0, FaWith(16, 1, b)) : b \in {18, 35, 163, 255}}
    \cup {Config(1023, FaWith(4, m, b)) : m \in {1, 3}, b \in {0, 18, 35}}

\* what a zone holds when the other zone is configured too
TwoZoneConfigs ==
    {Config(mav, FaWith(16, 15, b)) : mav \in {0, 2, 65535 - 32}, b \in {0, 18, 99}}

\* what the other zone holds
OtherConfigs == {Config(1023, FaWith(16, 1, 35))}

\* every harness other than this one before its first step
HarnessAtRest ==
    /\ ConcurrencyAtRest
    /\ dPayload = ValidPayload
    /\ dResult = NotCalled
    /\ updateListeners = << >>
    /\ dLog = << >>
    /\ deviceDelays = NoDelays
    /\ streak = NoStreaks
    /\ lastSuccess = NoSuccess
    /\ conn = NoConn
    /\ call = NoCall

InitCapability ==
    /\ HarnessAtRest
    /\ EntityAtRest
    /\ \/ deviceState = EmptyDeviceState
       \/ \E z \in CapZones, cfg \in CapConfigs :
            deviceState = [EmptyDeviceState EXCEPT
                              !.zone_configs = DictSet(EmptyDict, z, cfg)]
       \/ \E z \in CapZones, cfg \in TwoZoneConfigs, other \in OtherConfigs :
            deviceState = [EmptyDeviceState EXCEPT
                              !.zone_configs =
                                  DictSet(DictSet(EmptyDict, 1 - z, other), z, cfg)]

\* what the capability harness leaves alone
capabilityFrame ==
    <<concurrencyVars, deviceState, dPayload, dResult, updateListeners, dLog,
      deviceDelays, streak, lastSuccess, conn, call>>

\* self._data.is_mode_available(zone, mode)
AskModeAvailable ==
    /\ \E zone \in CapZones, mode \in CapModes :
         capQuery' = Query("mode", zone, mode,
                           IsModeAvailable(deviceState, zone, mode), << >>)
    /\ UNCHANGED <<capabilityFrame, entState, entCall, wr, ex, moreVars>>

\* self._data.get_available_fan_speeds(zone, mode)
AskFanSpeeds ==
    /\ \E zone \in CapZones, mode \in CapModes :
         capQuery' = Query("fan", zone, mode, FALSE,
                           GetAvailableFanSpeeds(deviceState, zone, mode))
    /\ UNCHANGED <<capabilityFrame, entState, entCall, wr, ex, moreVars>>

NextCapability ==
    \/ AskModeAvailable
    \/ AskFanSpeeds

SpecCapability == InitCapability /\ [][NextCapability]_vars

\* the zone the last query was about has a fetched configuration
QueriedZoneConfigured == capQuery.zone \in DOMAIN deviceState.zone_configs

\* bit `bit` of the non-negative integer n
BitOf(n, bit) == (n \div (2 ^ bit)) % 2 = 1

\* C24: is_mode_available answers true for every mode when the zone has no
\* configuration or its MAV is 0, and otherwise answers whether bit `mode` of
\* the MAV is set.
C24_ModeAvailableFollowsMav ==
    capQuery.kind = "mode" =>
        LET mav == IF QueriedZoneConfigured
                   THEN deviceState.zone_configs[capQuery.zone].MAV ELSE 0
        IN capQuery.available = (mav = 0 \/ BitOf(mav, capQuery.mode))

\* mode 5 asked of a zone whose MAV has every mode bit but bit 5: refused
C24_Witness ==
    /\ capQuery.kind = "mode" /\ capQuery.mode = 5
    /\ QueriedZoneConfigured
    /\ deviceState.zone_configs[capQuery.zone].MAV = 65535 - 32
    /\ ~capQuery.available

\* the speed list the FA byte `b` stands for
FanSpeedsOfByte(b) ==
    LET maxSpeed == b % 16
        fixedSpeed == BitOf(b, 4)
        allowOff == BitOf(b, 5)
        allowManualAuto == BitOf(b, 6)
        allowFullAuto == BitOf(b, 7)
    IN IF fixedSpeed THEN (IF maxSpeed = 0 THEN <<1>> ELSE <<maxSpeed>>)
       ELSE (IF allowOff THEN <<0>> ELSE << >>)
            \o [i \in 1..(IF maxSpeed < 3 THEN maxSpeed ELSE 3) |-> i]
            \o (IF maxSpeed = 0 /\ allowOff /\ ~allowManualAuto /\ ~allowFullAuto
                THEN <<128>> ELSE << >>)
            \o (IF allowManualAuto THEN <<64>> ELSE << >>)
            \o (IF allowFullAuto THEN <<128>> ELSE << >>)

\* C25: for every FA byte of a zone and mode, get_available_fan_speeds
\* returns [maxSpeed] (or [1] when maxSpeed is 0) for a fixed-speed byte and
\* otherwise [0 if allowOff] + [1..min(maxSpeed, 3)] + [128 if maxSpeed = 0,
\* allowOff and no auto flag] + [64 if allowManualAuto] + [128 if
\* allowFullAuto].
C25_FanSpeedsFollowFaByte ==
    (/\ capQuery.kind = "fan"
     /\ QueriedZoneConfigured
     /\ capQuery.mode < Len(deviceState.zone_configs[capQuery.zone].FA)) =>
        capQuery.speeds =
            FanSpeedsOfByte(deviceState.zone_configs[capQuery.zone].FA[capQuery.mode + 1])

\* a fixed-speed byte with maxSpeed 2 (16 + 2) answered with exactly [2]
C25_Witness ==
    /\ capQuery.kind = "fan" /\ capQuery.mode = 15
    /\ QueriedZoneConfigured
    /\ deviceState.zone_configs[capQuery.zone].FA[16] = 18
    /\ capQuery.speeds = <<2>>

\* ============================================================= zone harness
\* user-selected modes (cool, heat strip) and active-state bitmasks (every
\* combination of the dry, cool and heat bits, and the auto-idle bit 32) of
\* the status payloads explored
ZoneModeNums == {2, 5}
ActiveStates == (0..7) \cup {32}

\* status payloads with zones 0 and 1, each a complete 16-element array
ZonePayloads ==
    {Payload("object", TRUE, <<ZoneInfo("0", 16, m0, a0), ZoneInfo("1", 16, m1, a1)>>) :
        m0 \in ZoneModeNums, m1 \in ZoneModeNums, a0 \in ActiveStates, a1 \in ActiveStates}

InitZone ==
    /\ ConcurrencyAtRest
    /\ deviceState = EmptyDeviceState
    /\ dPayload \in ZonePayloads
    /\ dResult = NotCalled
    /\ updateListeners = << >>
    /\ dLog = << >>
    /\ deviceDelays = NoDelays
    /\ streak = NoStreaks
    /\ lastSuccess = NoSuccess
    /\ conn = NoConn
    /\ call = NoCall
    /\ EntityAtRest

\* the next status payload is read
ZoneNextPayload ==
    /\ dResult.raised # "not called"
    /\ dPayload' \in ZonePayloads
    /\ dResult' = NotCalled
    /\ dLog' = << >>
    /\ UNCHANGED <<concurrencyVars, deviceState, updateListeners, deviceDelays,
                   streak, lastSuccess, conn, call, entityVars>>

NextZone == DecodeCall \/ ZoneNextPayload

SpecZone == InitZone /\ [][NextZone]_vars

\* the zones of the canonical state that a status payload filled
DecodedZones == {z \in DOMAIN deviceState.zones : ~deviceState.zones[z].empty}

\* C26: current_mode of every decoded zone is decided by the active-state
\* bitmask alone: it is "off" exactly when none of the dry (1), cool (2) and
\* heat (4) bits is set, it names a mode only when that mode's bit is set, and
\* two zones with the same active state have the same current_mode whatever
\* their user-selected mode numbers are.
C26_CurrentModeFromActiveBits ==
    \A z \in DecodedZones :
        LET zs == deviceState.zones[z]
            a == zs.active_state_num
        IN /\ zs.current_mode \in {"dry", "cool", "heat", "off"}
           /\ zs.current_mode = "off" <=> a % 8 = 0
           /\ zs.current_mode = "dry" => a % 2 = 1
           /\ zs.current_mode = "cool" => (a \div 2) % 2 = 1
           /\ zs.current_mode = "heat" => (a \div 4) % 2 = 1
           /\ \A y \in DecodedZones :
                deviceState.zones[y].active_state_num = a =>
                    deviceState.zones[y].current_mode = zs.current_mode

\* zone 0 selected mode 5 and zone 1 selected mode 2, both actively heating
\* (active state 4): both decode to heat
C26_Witness ==
    /\ dResult.raised = "none"
    /\ {0, 1} \subseteq DecodedZones
    /\ deviceState.zones[0].mode_num = 5 /\ deviceState.zones[1].mode_num = 2
    /\ deviceState.zones[0].active_state_num = 4
    /\ deviceState.zones[1].active_state_num = 4
    /\ deviceState.zones[0].current_mode = "heat"
    /\ deviceState.zones[1].current_mode = "heat"

\* =========================================================== entity harness
\* the zone of the entity explored
EntityZone == 0

\* MAV masks of the entity's zone: none fetched yet, every mode, cool and
\* furnace only (heat pump 5 missing, furnace 4 present), off/fan/cool/heat
\* pump/auto/dry, off and auto-with-furnace 11 only, fan only
EntityMavs == {0, 65535, 4 + 16, 1 + 2 + 4 + 32 + 64 + 256, 1 + 2048, 2}

\* FA bytes (the same for every mode): nothing, fixed speed 2, off + 3
\* speeds, off + 2 speeds + full auto, off only, 2 speeds + manual auto,
\* off + 1 speed + full auto, fixed speed 5
EntityFaBytes == {0, 18, 35, 162, 32, 66, 161, 21}

EntityConfigs ==
    {Config(mav, [i \in 1..16 |-> b]) : mav \in EntityMavs, b \in EntityFaBytes}

\* the entity's copy of a zone of a decoded status
ZoneDict(mode_num) ==
    [mode_num |-> mode_num, cool_sp |-> 70, heat_sp |-> 70,
     fan_mode_num |-> 0, cool_fan_mode_num |-> 0, heat_fan_mode_num |-> 0,
     auto_fan_mode_num |-> 0]

\* local states explored: nothing received yet, or a status with the zone
\* off, fan only, cooling, on the furnace, on the heat pump, drying, in auto
EntityStates == {EmptyDict} \cup {ZoneDict(m) : m \in {0, 1, 2, 4, 5, 6, 8}}

InitEntity ==
    /\ HarnessAtRest
    /\ capQuery = NoQuery
    /\ wr = NoWriteCall
    /\ ex = NoExecution
    /\ zp = NoProbe
    /\ rb = NoReboot
    /\ fanReq = NoFanRequest
    /\ entCall = NoSetter
    /\ entState \in EntityStates
    /\ \/ deviceState = EmptyDeviceState
       \/ \E cfg \in EntityConfigs :
            deviceState =
                [available_zones |-> <<EntityZone>>,
                 zones |-> DictSet(EmptyDict, EntityZone, ZoneStatus(ZoneInfo("0", 16, 0, 0))),
                 zone_configs |-> DictSet(EmptyDict, EntityZone, cfg)]

\* what the entity harness leaves alone
entityFrameBase ==
    <<concurrencyVars, deviceState, dPayload, dResult, updateListeners, dLog,
      deviceDelays, streak, lastSuccess, conn, call, capQuery, wr, ex>>

entityFrame == <<entityFrameBase, moreVars>>

\* the setter returned before send_command
SetterReturnsEarly(fn) ==
    /\ entCall' = Setter(fn, FALSE, EmptyDict, FALSE, entState, FALSE)
    /\ UNCHANGED entState

\* the setter sent `changes`, got `success` and applied `updates` on success
SetterSends(fn, changes, updates, success, rollback) ==
    /\ entCall' = Setter(fn, TRUE, changes, success, entState, rollback)
    /\ entState' = Optimistic(entState, updates, success)

ModeChanges(mode) ==
    [zone |-> EntityZone, power |-> 1, mode |-> mode]

\* async_set_hvac_mode(hvac_mode)
SetHvacMode ==
    /\ entCall.fn = "none"
    /\ \E hvac_mode \in Elements(HVACModes), has_device \in BOOLEAN, success \in BOOLEAN :
         LET mode == HvacDeviceMode(deviceState, EntityZone, hvac_mode)
             power == IF hvac_mode = "off" THEN "off" ELSE "on"
         IN IF \/ hvac_mode \notin HvacModes(deviceState, EntityZone)
               \/ ~has_device
               \/ mode = Rejected
            THEN SetterReturnsEarly("set_hvac_mode")
            ELSE SetterSends("set_hvac_mode", ModeChanges(mode),
                             DictSet(DictSet(EmptyDict, "mode_num", mode), power, TRUE),
                             success, FALSE)
    /\ UNCHANGED entityFrame

\* async_set_preset_mode(preset_mode)
SetPresetMode ==
    /\ entCall.fn = "none"
    /\ \E preset_mode \in PresetNames \cup {"none", "Turbo"},
          has_device \in BOOLEAN, success \in BOOLEAN :
         IF \/ preset_mode \notin PresetNames
            \/ ~IsModeAvailable(deviceState, EntityZone, HEAT_TYPE_PRESETS[preset_mode])
            \/ ~has_device
         THEN SetterReturnsEarly("set_preset_mode")
         ELSE SetterSends("set_preset_mode", ModeChanges(HEAT_TYPE_PRESETS[preset_mode]),
                          DictSet(DictSet(EmptyDict, "mode_num", HEAT_TYPE_PRESETS[preset_mode]),
                                  "on", TRUE),
                          success, FALSE)
    /\ UNCHANGED entityFrame

\* async_set_fan_mode(fan_mode)
SetFanMode ==
    /\ entCall.fn = "none"
    /\ \E fan_mode \in {"", "off", "low", "medium", "high", "auto", "turbo"},
          has_device \in BOOLEAN, success \in BOOLEAN :
         LET fan_value == FanValue(deviceState, EntityZone, entState, fan_mode)
             field == FanField(entState)
             slot == FanSlot(entState)
             zone_only == DictSet(EmptyDict, "zone", EntityZone)
         IN /\ fanReq' = [name |-> fan_mode, has_device |-> has_device]
            /\ IF \/ fan_mode = ""
                  \/ fan_mode \notin FanModes(deviceState, EntityZone, entState)
                  \/ ~has_device
                  \/ fan_value = Rejected
               THEN SetterReturnsEarly("set_fan_mode")
               ELSE SetterSends("set_fan_mode",
                                IF field = "" THEN zone_only
                                ELSE DictSet(zone_only, field, fan_value),
                                IF slot = "" THEN EmptyDict
                                ELSE DictSet(EmptyDict, slot, fan_value),
                                success, FALSE)
    /\ UNCHANGED <<entityFrameBase, zp, rb>>

\* async_set_temperature(temperature=..) or (target_temp_low=.., target_temp_high=..)
SetTemperature ==
    /\ entCall.fn = "none"
    /\ \E kind \in {"temperature", "range", "other"},
          has_device \in BOOLEAN, success \in BOOLEAN :
         LET changes == TemperatureChanges(EntityZone, entState, kind, 72, 68, 76)
         IN IF ~has_device
            THEN SetterReturnsEarly("set_temperature")
            ELSE SetterSends("set_temperature", changes,
                             Restrict(changes, SetpointKeys), success, success)
    /\ UNCHANGED entityFrame

\* _check_and_rollback, 3 s after a successful temperature change: the
\* device's cool_sp / heat_sp either equals the value sent or not
CheckAndRollback ==
    /\ entCall.rollback
    /\ \E device_matches \in BOOLEAN :
         LET rollback_needed ==
                 /\ EntityZone \in DOMAIN deviceState.zones
                 /\ {"cool_sp", "heat_sp"} \cap DOMAIN entCall.changes # {}
                 /\ ~device_matches
         IN entState' = IF rollback_needed
                        THEN DictUpdate(entState, Restrict(entCall.before, SetpointKeys))
                        ELSE entState
    /\ entCall' = [entCall EXCEPT !.rollback = FALSE]
    /\ UNCHANGED entityFrame

\* the update callback: _state is replaced by a copy of the zone's new state
EntityRefresh ==
    /\ entCall.fn # "none"
    /\ entState' \in EntityStates \ {EmptyDict}
    /\ entCall' = NoSetter
    /\ UNCHANGED entityFrame

NextEntity ==
    \/ SetHvacMode
    \/ SetPresetMode
    \/ SetFanMode
    \/ SetTemperature
    \/ CheckAndRollback
    \/ EntityRefresh

SpecEntity == InitEntity /\ [][NextEntity]_vars

FanFields == {"fanOnly", "coolFan", "gasFan", "eleFan", "autoFan"}

\* the speeds available to the entity in the mode it was in when called
SpeedsAtCall ==
    Elements(GetAvailableFanSpeeds(deviceState, EntityZone, FanLookupMode(entCall.before)))

\* C22: every Change command that set_hvac_mode or set_preset_mode enqueues
\* carries a mode for which is_mode_available holds, and every Change command
\* that set_fan_mode enqueues carries a fan speed that is one of the available
\* fan speeds of the zone in its current mode.
C22_ChangesCarryAvailableValues ==
    entCall.sent =>
        /\ entCall.fn \in {"set_hvac_mode", "set_preset_mode"} =>
              /\ "mode" \in DOMAIN entCall.changes
              /\ IsModeAvailable(deviceState, EntityZone, entCall.changes["mode"])
        /\ entCall.fn = "set_fan_mode" =>
              \E f \in FanFields \cap DOMAIN entCall.changes :
                  entCall.changes[f] \in SpeedsAtCall

\* set_fan_mode sent a Change command that names the zone and nothing else
C22_Witness ==
    /\ entCall.fn = "set_fan_mode"
    /\ entCall.sent
    /\ DOMAIN entCall.changes = {"zone"}

\* the part of C22 that holds: no Change command of the three setters carries
\* a mode that is not available or a fan speed that is not available
C22_NoUnavailableValueSent ==
    entCall.sent =>
        /\ entCall.fn \in {"set_hvac_mode", "set_preset_mode"} =>
              /\ "mode" \in DOMAIN entCall.changes
              /\ IsModeAvailable(deviceState, EntityZone, entCall.changes["mode"])
        /\ entCall.fn = "set_fan_mode" =>
              \A f \in FanFields \cap DOMAIN entCall.changes :
                  entCall.changes[f] \in SpeedsAtCall

WriteAddress == "addrA"

InitWrite == InitDelay

\* what the write harness leaves alone
writeFrame ==
    <<concurrencyVars, deviceState, dPayload, dResult, updateListeners, dLog,
      streak, lastSuccess, conn, call, capQuery, entState, entCall, ex, moreVars>>

\* the operation's entry can record one more failure
BelowMaxFailures(operation) ==
    deviceDelays[WriteAddress][operation].failures < MaxFailures

\* _write_gatt_with_retry is called
WriteStart ==
    /\ wr.pc \in {"idle", "done"}
    /\ wr' = WriteCall("check", 0, 0, 0, 0, "none")
    /\ UNCHANGED <<writeFrame, deviceDelays>>

\* `if not self._client or not self._client.is_connected:` reconnect first
WriteCheck ==
    /\ wr.pc = "check"
    /\ \/ /\ wr' = [wr EXCEPT !.pc = "sleep"]
          /\ UNCHANGED deviceDelays
       \/ \E outcome \in ReconnectOutcomes :
            /\ outcome \in {"connect_failed", "raised"} => BelowMaxFailures("connect")
            /\ outcome = "auth_failed" => BelowMaxFailures("auth")
            /\ deviceDelays' = ReconnectDelays(deviceDelays, WriteAddress, outcome)
            /\ wr' = IF outcome = "ok" THEN [wr EXCEPT !.pc = "sleep"]
                     ELSE [wr EXCEPT !.pc = "done", !.result = "false"]
    /\ UNCHANGED writeFrame

\* `write_delay = self._get_operation_delay(...); await asyncio.sleep(write_delay)`
WriteSleep ==
    /\ wr.pc = "sleep"
    /\ wr' = [wr EXCEPT !.pc = "write",
                        !.slept = GetOperationDelay(deviceDelays, WriteAddress, "write")]
    /\ UNCHANGED <<writeFrame, deviceDelays>>

\* `await self._client.write_gatt_char(uuid, data, response=True)`
WriteAttempt ==
    /\ wr.pc = "write"
    /\ \/ \* written
          /\ deviceDelays' = AdjustOperationDelay(deviceDelays, WriteAddress, "write")
          /\ wr' = [wr EXCEPT !.pc = "done", !.writes = @ + 1, !.result = "true"]
       \/ \* BleakError, and another attempt follows
          /\ MayRetry(wr.attempt)
          /\ BelowMaxFailures("write")
          /\ deviceDelays' = IncreaseOperationDelay(deviceDelays, WriteAddress, "write")
          /\ wr' = [wr EXCEPT !.pc = "check", !.attempt = @ + 1,
                              !.writes = @ + 1, !.failures = @ + 1]
       \/ \* BleakError at the last attempt
          /\ ~MayRetry(wr.attempt)
          /\ wr' = [wr EXCEPT !.pc = "done", !.writes = @ + 1, !.failures = @ + 1,
                              !.result = "false"]
          /\ UNCHANGED deviceDelays
       \/ \* TimeoutError, OSError, or AttributeError on a cleared handle
          /\ wr' = [wr EXCEPT !.pc = "done", !.writes = @ + 1, !.result = "raised"]
          /\ UNCHANGED deviceDelays
    /\ UNCHANGED writeFrame

NextWrite == WriteStart \/ WriteCheck \/ WriteSleep \/ WriteAttempt

SpecWrite == InitWrite /\ [][NextWrite]_vars

\* C28: a call of _write_gatt_with_retry makes at most 3 write attempts; the
\* delay waited before an attempt is the write delay stored for the device; it
\* returns true at the first attempt that succeeds, so every earlier attempt
\* failed; after the third transport failure it has returned false; while it
\* runs it has no result yet and every attempt so far has failed.
C28_WriteTerminatesInThreeAttempts ==
    /\ wr.writes <= WriteRetries
    /\ wr.failures <= wr.writes
    /\ wr.pc = "write" =>
          wr.slept = GetOperationDelay(deviceDelays, WriteAddress, "write")
    /\ wr.result = "true" => wr.writes = wr.failures + 1
    /\ wr.failures = WriteRetries => (wr.pc = "done" /\ wr.result = "false")
    /\ wr.pc \in {"check", "sleep", "write"} =>
          (wr.result = "none" /\ wr.writes = wr.failures)
    /\ wr.pc = "done" => wr.result \in {"true", "false", "raised"}

\* three failed attempts, the third after a wait of the increased delay, and
\* the call returned false
C28_Witness ==
    /\ wr.pc = "done" /\ wr.result = "false"
    /\ wr.writes = 3 /\ wr.failures = 3
    /\ wr.slept > 0

\* ========================================================= executor harness
ExecZones == {0, 1}

\* status responses the follow-up read can return
ExecPayloads ==
    WirePayloads \cup {Payload("object", TRUE, <<ZoneInfo("1", 16, 2, 2)>>)}

InitExecute == InitDelay

\* what the executor harness leaves alone
executeFrame ==
    <<concurrencyVars, dResult, updateListeners, dLog, deviceDelays, streak,
      lastSuccess, conn, call, capQuery, entState, entCall, wr, moreVars>>

ExecReturns(result, followUp) ==
    ex' = [ex EXCEPT !.pc = "done", !.result = result, !.followUp = followUp]

\* _execute_command_safely(hass, ble_device, command) is entered
ExecStart ==
    /\ ex.pc \in {"idle", "done"}
    /\ \E type \in CmdTypes, zone \in ExecZones :
         ex' = Execution(type, zone, "ensure", FALSE, NoZone, FALSE, "none", "none",
                         deviceState)
    /\ UNCHANGED <<executeFrame, deviceState, dPayload>>

\* `if not await self._ensure_connected(hass, ble_device): return False`
ExecEnsure ==
    /\ ex.pc = "ensure"
    /\ \/ ex' = [ex EXCEPT !.pc = "write"]
       \/ ExecReturns("false", "none")
    /\ UNCHANGED <<executeFrame, deviceState, dPayload>>

\* the write of the command bytes
ExecWrite ==
    /\ ex.pc = "write"
    /\ \/ \* written
          ex' = IF FollowsUp(ex.type)
                THEN [ex EXCEPT !.pc = "status", !.written = TRUE]
                ELSE [ex EXCEPT !.pc = "done", !.written = TRUE, !.result = "true"]
       \/ \* the write returned False, or raised TimeoutError / OSError (caught
          \* by the outer handler: disconnect, return False)
          ExecReturns("false", "none")
       \/ \* AttributeError on a cleared handle: not handled
          ExecReturns("raised", "none")
    /\ UNCHANGED <<executeFrame, deviceState, dPayload>>

\* sleep 0.3 s, then the write of {"Type": "Get Status", "Zone": zone, ...}
ExecStatusWrite ==
    /\ ex.pc = "status"
    /\ \/ ex' = [ex EXCEPT !.pc = "read", !.statusZone = ex.zone]
       \/ \* the write returned False: logged
          ex' = [ex EXCEPT !.pc = "done", !.statusZone = ex.zone,
                           !.result = "true", !.followUp = "write_failed"]
       \/ \* TimeoutError / OSError: caught by the inner handler, logged
          ex' = [ex EXCEPT !.pc = "done", !.statusZone = ex.zone,
                           !.result = "true", !.followUp = "error"]
       \/ \* AttributeError on a cleared handle: not handled
          ex' = [ex EXCEPT !.pc = "done", !.statusZone = ex.zone,
                           !.result = "raised"]
    /\ UNCHANGED <<executeFrame, deviceState, dPayload>>

\* sleep 0.1 s, `json_payload = await self._read_gatt_with_retry(...)`, then
\* `self.decrypt(json_payload)` when there is a payload
ExecRead ==
    /\ ex.pc = "read"
    /\ \/ \* None or empty: logged
          /\ ex' = [ex EXCEPT !.pc = "done", !.read = TRUE, !.result = "true",
                              !.followUp = "no_response"]
          /\ UNCHANGED <<deviceState, dPayload>>
       \/ \* TimeoutError / OSError in the read: caught by the inner handler
          /\ ex' = [ex EXCEPT !.pc = "done", !.read = TRUE, !.result = "true",
                              !.followUp = "error"]
          /\ UNCHANGED <<deviceState, dPayload>>
       \/ \E p \in ExecPayloads :
            LET d == Decrypt(p, deviceState) IN
            /\ dPayload' = p
            /\ deviceState' = d.state
            /\ ex' = IF d.raised = "none"
                     THEN [ex EXCEPT !.pc = "done", !.read = TRUE, !.result = "true",
                                     !.followUp = "decoded"]
                     ELSE IF d.raised \in FollowUpCatches
                     THEN [ex EXCEPT !.pc = "done", !.read = TRUE, !.result = "true",
                                     !.followUp = "error"]
                     ELSE [ex EXCEPT !.pc = "done", !.read = TRUE, !.result = "raised"]
    /\ UNCHANGED executeFrame

NextExecute == ExecStart \/ ExecEnsure \/ ExecWrite \/ ExecStatusWrite \/ ExecRead

SpecExecute == InitExecute /\ [][NextExecute]_vars

\* C27 (as claimed): a Change command that resolved true was followed by a
\* Get Status request for its zone whose response was read and decoded into
\* the canonical state; a command of another type that resolved true was
\* followed by no status request and no read.
C27_TrueMeansDeviceConfirmed ==
    ex.result = "true" =>
        IF ex.type = "Change"
        THEN ex.statusZone = ex.zone /\ ex.read /\ ex.followUp = "decoded"
        ELSE ex.statusZone = NoZone /\ ~ex.read

\* C27 (amended): a command that resolved true was written; if it was a
\* Change command a Get Status request for its zone was attempted after the
\* command write, the canonical state is the decoded response when the
\* follow-up got one and decoded it, and is what it was before the call when
\* the follow-up failed (status write failed, no response, or a logged
\* error); a command of another type was followed by no status request and
\* no read and left the canonical state alone.
C27_TrueMeansWrittenAndFollowUpAttempted ==
    ex.result = "true" =>
        /\ ex.written
        /\ IF ex.type = "Change"
           THEN /\ ex.statusZone = ex.zone
                /\ ex.followUp \in {"decoded", "write_failed", "no_response", "error"}
                /\ ex.followUp = "decoded" =>
                      (ex.read /\ deviceState = Decrypt(dPayload, ex.before).state)
                /\ ex.followUp \in {"write_failed", "no_response"} =>
                      deviceState = ex.before
           ELSE /\ ex.statusZone = NoZone /\ ~ex.read /\ ex.followUp = "none"
                /\ deviceState = ex.before

\* a Change command for zone 1 resolved true although the status request
\* could not be written: the canonical state is the one from before the call
C27_Witness ==
    /\ ex.type = "Change" /\ ex.zone = 1
    /\ ex.result = "true"
    /\ ex.followUp = "write_failed"
    /\ ex.statusZone = 1
    /\ deviceState = ex.before

\* no poll task, worker task or health monitor of the device is running
NoBackgroundTask ==
    /\ ppc \in {"cancelled", "crashed"}
    /\ \A w \in Workers : ~WorkerAlive(w)
    /\ ~HealthAlive

\* C29: in the step that completes async_shutdown the poll task, every worker
\* task and the health monitor have already terminated, so the final
\* disconnect comes after them, and the step leaves the client handle cleared
\* and no background task running.
C29_ShutdownLeavesNothingRunning ==
    [][(spc # "done" /\ spc' = "done") =>
          /\ NoBackgroundTask
          /\ NoBackgroundTask'
          /\ client' = "none"]_vars

\* async_shutdown has completed and a worker task created by a send_command
\* that arrived during the shutdown is running
C29_Witness ==
    /\ spc = "done"
    /\ ppc = "cancelled"
    /\ \E w \in Workers : WorkerAlive(w) /\ w = workerTask

WorkerStep(w) ==
    \/ WorkerStart(w) \/ WorkerDequeue(w) \/ WorkerAcquire(w) \/ WorkerConnect(w)
    \/ WorkerWrite(w) \/ WorkerVerify(w) \/ WorkerIdleTimeout(w)
    \/ WorkerCancelled(w) \/ WorkerCancelledUnstarted(w) \/ WorkerFinally(w)

PollStep ==
    PollCheck \/ PollAcquire \/ PollConnect \/ PollWrite \/ PollRead \/ PollCancelled

HealthStep == HealthCheck \/ HealthCancelled

\* async_shutdown once it was called
ShutdownStep == ShutdownAfterPoll \/ ShutdownAfterWorker \/ ShutdownAfterHealth

\* Callers, the passing of time and the link are the environment: nothing is
\* assumed about them.
IdleSpec ==
    /\ Spec
    /\ \A w \in Workers : WF_vars(WorkerStep(w))
    /\ WF_vars(PollStep)
    /\ WF_vars(HealthStep)
    /\ WF_vars(ShutdownStep)

\* a connection exists and the last successful activity is more than
\* _connection_idle_timeout ago
IdleConnection == client # "none" /\ idleExpired

\* a step of the worker's timeout branch or of the health check
IdleDisconnect == (\E w \in Workers : WorkerIdleTimeout(w)) \/ HealthCheck

ProbeCatches == {"BleakError", "TimeoutError", "OSError"}

\* exceptions the handler around one probe command names
ProbeCommandCatches == {"BleakError", "TimeoutError", "OSError", "JSONDecodeError"}

\* the status payloads the probe reads
ProbePayloads ==
    {Payload("bad_json", FALSE, NoZsts), Payload("bad_utf8", FALSE, NoZsts),
     Payload("scalar", FALSE, NoZsts), Payload("array", TRUE, NoZsts),
     Payload("object", FALSE, NoZsts), Payload("object", TRUE, NoZsts),
     Payload("object", TRUE, <<ZoneInfo("0", 16, 5, 4)>>),
     Payload("object", TRUE, <<ZoneInfo("0", 16, 5, 4), ZoneInfo("1", 16, 2, 2)>>)}

\* what the device answers to Get Config: a Config response, another JSON
\* object, or bytes by what json.loads(payload.decode("utf-8")) makes of them
ConfigResponses ==
    {"config", "object", "bad_json", "bad_utf8", "scalar", "array", "empty"}

\* the exception that escapes _fetch_zone_configurations for a response: its
\* handlers name JSONDecodeError, KeyError, BleakError, TimeoutError and OSError
ConfigResponseError(q) ==
    CASE q = "bad_utf8" -> "UnicodeDecodeError"
      [] q \in {"scalar", "array"} -> "AttributeError"
      [] OTHER -> "none"

\* `self._device_state["zone_configs"][zone] = {...}` for zones[i..]
RECURSIVE StoreConfigs(_, _, _)
StoreConfigs(state, zones, i) ==
    IF i > Len(zones) THEN state
    ELSE StoreConfigs([state EXCEPT !.zone_configs = DictSet(@, zones[i], "cfgA")],
                      zones, i + 1)

\* _fetch_zone_configurations(client, zones) when every zone is answered by q
FetchZoneConfigurations(state, zones, q) ==
    IF ConfigResponseError(q) # "none"
    THEN [raised |-> ConfigResponseError(q), state |-> state]
    ELSE [raised |-> "none",
          state |-> IF q = "config" THEN StoreConfigs(state, zones, 1) ELSE state]

InitProbe == InitDelay

\* what the probe harness leaves alone
probeFrame ==
    <<concurrencyVars, dPayload, dResult, updateListeners, dLog, deviceDelays,
      streak, lastSuccess, conn, call, capQuery, entState, entCall, wr, ex, rb,
      fanReq>>

\* the inner loop goes on to the next probe command, or ends
NextCommand(p) ==
    IF p.cmd + 1 < ProbeCommands
    THEN [p EXCEPT !.cmd = @ + 1]
    ELSE [p EXCEPT !.pc = "finally", !.leave = "fall"]

\* an exception raised inside a probe command
CommandRaises(p, exc) ==
    IF exc \in ProbeCommandCatches THEN NextCommand(p)
    ELSE IF exc \in ProbeCatches THEN [p EXCEPT !.pc = "finally", !.leave = "fall"]
    ELSE [p EXCEPT !.pc = "finally", !.leave = "raise", !.result = exc]

ProbeReturns(p, zones) ==
    [p EXCEPT !.pc = "finally", !.leave = "return", !.zones = zones]

\* the tests after the configuration fetch
AfterZones(p, zones) ==
    IF Len(zones) > 1 THEN ProbeReturns(p, zones)
    ELSE IF zones # << >> /\ p.cmd = ProbeCommands - 1 THEN ProbeReturns(p, zones)
    ELSE NextCommand(p)

\* get_available_zones(hass, ble_device) is called
ProbeStart ==
    /\ zp.pc = "idle"
    /\ \/ zp' = [zp EXCEPT !.pc = "connect"]
       \/ \* no BLE device known: return [0]
          zp' = [zp EXCEPT !.pc = "done", !.result = "returned", !.zones = <<0>>]
    /\ UNCHANGED <<probeFrame, deviceState>>

\* establish_connection
ProbeConnect ==
    /\ zp.pc = "connect"
    /\ \/ zp' = [zp EXCEPT !.pc = "auth", !.link = "open", !.opened = @ + 1]
       \/ \* no client, or one that is not connected: `continue`
          \E l \in {"none", "unconnected"} :
            zp' = [zp EXCEPT !.pc = "finally", !.link = l, !.leave = "continue"]
       \/ /\ "BleakError" \in ProbeCatches
          /\ zp' = [zp EXCEPT !.pc = "finally", !.link = "none", !.leave = "fall"]
    /\ UNCHANGED <<probeFrame, deviceState>>

\* the password write; its errors are logged
ProbeAuth ==
    /\ zp.pc = "auth"
    /\ zp' = [zp EXCEPT !.pc = "command", !.cmd = 0]
    /\ UNCHANGED <<probeFrame, deviceState>>

\* one probe command: write, read, decrypt, configuration fetch
ProbeCommand ==
    /\ zp.pc = "command"
    /\ \/ \* the write or the read raises a transport error
          /\ zp' = CommandRaises(zp, "BleakError")
          /\ UNCHANGED deviceState
       \/ \* nothing read
          /\ zp' = NextCommand(zp)
          /\ UNCHANGED deviceState
       \/ \E p \in ProbePayloads, q \in ConfigResponses :
            LET d == Decrypt(p, deviceState)
                zones == d.value.available_zones
                f == FetchZoneConfigurations(d.state, zones, q)
            IN IF d.raised # "none"
               THEN /\ zp' = CommandRaises(zp, d.raised)
                    /\ deviceState' = d.state
               ELSE IF zones = << >>
               THEN /\ zp' = AfterZones(zp, zones)
                    /\ deviceState' = d.state
               ELSE /\ deviceState' = f.state
                    /\ zp' = IF f.raised # "none" THEN CommandRaises(zp, f.raised)
                             ELSE AfterZones(zp, zones)
    /\ UNCHANGED probeFrame

\* `finally`: disconnect a connected client; then return, raise, or go on with
\* the next attempt (after the 1 s wait unless `continue` skipped it)
ProbeFinally ==
    /\ zp.pc = "finally"
    /\ LET released == IF zp.link = "open" THEN zp.released + 1 ELSE zp.released
           p == [zp EXCEPT !.link = "none", !.released = released]
       IN zp' =
            IF zp.leave = "return" THEN [p EXCEPT !.pc = "done", !.result = "returned"]
            ELSE IF zp.leave = "raise" THEN [p EXCEPT !.pc = "done"]
            ELSE IF zp.attempt + 1 < ProbeAttempts
            THEN [p EXCEPT !.pc = "connect", !.attempt = @ + 1,
                           !.slept = IF zp.leave = "fall" THEN @ + 1 ELSE @]
            ELSE [p EXCEPT !.pc = "done", !.result = "returned", !.zones = <<0>>]
    /\ UNCHANGED <<probeFrame, deviceState>>

NextProbe == ProbeStart \/ ProbeConnect \/ ProbeAuth \/ ProbeCommand \/ ProbeFinally

SpecProbe == InitProbe /\ [][NextProbe]_vars

\* C32 (as claimed): get_available_zones ends after at most 3 connection
\* attempts, has disconnected every probe connection it opened before the
\* next attempt and before it ends, and ends by returning a non-empty zone
\* list ([0] when every attempt failed), never by an exception.
C32_ProbeReturnsZones ==
    /\ zp.opened <= ProbeAttempts
    /\ zp.pc \in {"connect", "done"} => zp.released = zp.opened
    /\ zp.pc = "done" => zp.result = "returned" /\ zp.zones # << >>

\* what holds of the call: bounded attempts, every opened connection
\* disconnected, and a non-empty list whenever the call returns
C32_ProbeBoundedAndReleased ==
    /\ zp.opened <= ProbeAttempts
    /\ zp.pc \in {"connect", "done"} => zp.released = zp.opened
    /\ (zp.pc = "done" /\ zp.result = "returned") => zp.zones # << >>

\* the third attempt failed after two failed ones and the call returned [0]
C32_Witness ==
    /\ zp.pc = "done"
    /\ zp.opened = ProbeAttempts
    /\ zp.result = "returned"
    /\ zp.zones = <<0>>

\* ============================================== timed-out commands (C33)
\* worker w's write of its Change command is accepted by the device in this step
CommandWritten(w) == wpc[w] = "write" /\ wcmd[w] # 0 /\ wpc'[w] = "verify"

\* C33 (as claimed): a command whose send_command call has already returned
\* False is never written to the device afterwards.
C33_ReturnedFalseNeverWritten ==
    [][\A w \in Workers : CommandWritten(w) => ret[wcmd[w]] # "false"]_vars

\* a worker has written the command of a call that timed out before the write
C33_Witness ==
    \E w \in Workers :
        /\ wpc[w] = "verify"
        /\ ret[wcmd[w]] = "false"
        /\ fut[wcmd[w]] = "cancelled"

\* ==================================== reboot_device beside worker and poll
\* what a reboot_device step leaves alone
rebootFrame ==
    <<queueVars, workerVars, lock, idleExpired, healthVars, pollVars, spc,
      deviceState, dPayload, dResult, updateListeners, dLog, deviceDelays, streak,
      lastSuccess, conn, call, capQuery, entState, entCall, wr, ex, zp, fanReq>>

\* reboot_device takes no lock: each step below is enabled whatever `lock` is.
\* async_press calls reboot_device: it runs up to the await of the connect
RebootStart ==
    /\ rb = "idle"
    /\ rb' = "connect"
    /\ UNCHANGED <<rebootFrame, client>>

\* `self._client = await self._connect_to_device(ble_device)`
RebootConnects ==
    /\ rb = "connect"
    /\ \/ client' = "ready" /\ rb' = "auth"
       \/ \* no services (False is stored in the handle), or the connect raised
          client' \in {"none", client} /\ rb' = "finally"
    /\ UNCHANGED rebootFrame

\* `await self.authenticate(self._password)` on the shared handle
RebootAuthenticates ==
    /\ rb = "auth"
    /\ \/ rb' = "write" /\ UNCHANGED client
       \/ \* authenticate failed: it has cleared the handle
          rb' = "finally" /\ client' = "none"
    /\ UNCHANGED rebootFrame

\* the reset command is written with self._client
RebootSendsReset ==
    /\ rb = "write"
    /\ rb' = "finally"
    /\ UNCHANGED <<rebootFrame, client>>

\* `finally`: disconnect, self._client = None
RebootFinally ==
    /\ rb = "finally"
    /\ client' = "none"
    /\ rb' = "done"
    /\ UNCHANGED rebootFrame

NextReboot ==
    \/ \E c \in Cmds : SendCommand(c)
    \/ \E c \in Cmds : SendCommandReturn(c)
    \/ \E w \in Workers : WorkerStart(w)
    \/ \E w \in Workers : WorkerDequeue(w)
    \/ \E w \in Workers : WorkerAcquire(w)
    \/ \E w \in Workers : WorkerConnect(w)
    \/ \E w \in Workers : WorkerWrite(w)
    \/ \E w \in Workers : WorkerVerify(w)
    \/ \E w \in Workers : WorkerFinally(w)
    \/ PollCheck
    \/ PollAcquire
    \/ PollConnect
    \/ PollWrite
    \/ PollRead
    \/ RebootStart
    \/ RebootConnects
    \/ RebootAuthenticates
    \/ RebootSendsReset
    \/ RebootFinally

SpecReboot == Init /\ [][NextReboot]_vars

\* reboot_device is between its call and its return
Rebooting == rb \in {"connect", "auth", "write", "finally"}

\* a queued command or a poll is inside its locked transport sequence
TransportLocked == lock # NoTask

\* C34 (as claimed): reboot_device is serialized with the executor and the
\* poll: it is never between its connect and its final disconnect while a
\* queued command or a poll holds the client lock for its transport sequence.
C34_RebootSerialized == ~(Rebooting /\ TransportLocked)

\* reboot_device has cleared the handle under a worker that holds the lock and
\* is about to write its command
C34_Witness ==
    /\ rb = "done"
    /\ client = "none"
    /\ \E w \in Workers : lock = w /\ wpc[w] = "write"

\* ================================================== one worker task (C35)
AliveWorkers == {w \in Workers : WorkerAlive(w)}

\* C35: at most one queue-worker task is alive at any time: a task that was
\* created by send_command and has not finished (it may not have taken its first
\* step yet, or be running its cancellation handler or its `finally`).
C35_AtMostOneWorkerAlive == Cardinality(AliveWorkers) <= 1

\* a second worker task runs after the first one has ended, with a command of
\* the later send_command in hand
C35_Witness ==
    \E v, w \in Workers :
        /\ v # w
        /\ WorkerDone(v)
        /\ Executing(w)

\* =========================================== recovery of the delay (C36)
\* A run of successes on one entry is deterministic, so once a success has
\* left the entry as it found it, every later success of the run does too:
\* the entry has reached the value the run ends in.
SuccessRunSettled ==
    /\ lastSuccess.recorded
    /\ lastSuccess.before.present
    /\ Entry(lastSuccess.address, lastSuccess.operation) = lastSuccess.before

\* C36 (as claimed): an unbroken run of successes on an entry brings its
\* delay back to exactly 0: the value the run ends in has delay 0.
C36_SuccessRunReachesZero ==
    SuccessRunSettled => Entry(lastSuccess.address, lastSuccess.operation).delay = 0

\* two failures, then successes until nothing changes: 2.0 s * 0.75 * 0.75
C36_Witness ==
    /\ SuccessRunSettled
    /\ Entry(lastSuccess.address, lastSuccess.operation).failures = 0
    /\ 16 * Entry(lastSuccess.address, lastSuccess.operation).delay = 18 * DelayUnit

\* ================================================ poll success flag (C37)
\* a poll iteration ends in this step having read a payload or nothing
PollReadEnds == ppc = "read" /\ ppc' = "sleep"

\* some payload was decoded in this step and its state installed
PayloadInstalled ==
    \E p \in WirePayloads :
        /\ Decrypt(p, deviceState).notify
        /\ deviceState' = Decrypt(p, deviceState).state

\* C37 (as claimed): a poll is recorded as successful only if its payload
\* replaced the canonical device state; a poll whose payload decrypt rejects
\* (invalid JSON, no Z_sts) is not recorded as successful.
C37_PollSuccessMeansStateInstalled ==
    [][(PollReadEnds /\ lastPollSuccess') => PayloadInstalled]_vars

\* the first poll read a payload that decrypt rejected: it is recorded as
\* successful and the canonical state is still the empty one
C37_Witness ==
    /\ lastPollSuccess
    /\ ppc = "sleep"
    /\ deviceState = EmptyDeviceState
    /\ workerTask = NoTask

\* ============================================= soft decode failures (C38)
\* payloads of this harness: those of the listener harness and the JSON
\* values that lack Z_sts
SoftPayloads ==
    NotifyPayloads \cup
    {Payload("object", FALSE, NoZsts), Payload("string", FALSE, NoZsts),
     Payload("array", FALSE, NoZsts)}

InitSoft ==
    /\ ConcurrencyAtRest
    /\ deviceState = EmptyDeviceState
    /\ dPayload \in SoftPayloads
    /\ dResult = NotCalled
    /\ updateListeners = << >>
    /\ dLog = << >>
    /\ deviceDelays = NoDelays
    /\ streak = NoStreaks
    /\ lastSuccess = NoSuccess
    /\ conn = NoConn
    /\ call = NoCall
    /\ EntityAtRest

\* the next status payload arrives
SoftNextPayload ==
    /\ dResult.raised # "not called"
    /\ dPayload' \in SoftPayloads
    /\ dResult' = NotCalled
    /\ dLog' = << >>
    /\ UNCHANGED <<concurrencyVars, deviceState, updateListeners, deviceDelays,
                   streak, lastSuccess, conn, call, entityVars>>

NextSoft ==
    \/ Subscribe
    \/ Unsubscribe
    \/ DecodeCall
    \/ DecodeFetchConfig
    \/ SoftNextPayload

SpecSoft == InitSoft /\ [][NextSoft]_vars

\* the payload is not a JSON document, or it is one in which `"Z_sts" in
\* status` is false
FailsSoft(data) ==
    \/ JsonLoadsError(data) = "JSONDecodeError"
    \/ /\ JsonLoadsError(data) = "none"
       /\ ContainsError(data) = "none"
       /\ ~ContainsZsts(data)

\* C38: a decode that fails soft (invalid JSON, or no Z_sts) leaves the
\* canonical device state as it was (zones, available_zones, zone_configs)
\* and runs no listener; it returns the default {available_zones: [0],
\* zones: {0: {}}} and raises nothing.
C38_SoftFailureLeavesState ==
    [][(DecodeCall /\ FailsSoft(dPayload)) =>
          /\ deviceState' = deviceState
          /\ dLog' = << >>
          /\ dResult'.raised = "none"
          /\ dResult'.value = DefaultState]_vars

\* a soft failure after a status was decoded and a configuration fetched,
\* with a listener subscribed
C38_Witness ==
    /\ dResult.raised = "none"
    /\ FailsSoft(dPayload)
    /\ dResult.value = DefaultState
    /\ deviceState.zones # EmptyDict
    /\ deviceState.zone_configs # EmptyDict
    /\ deviceState # DefaultState
    /\ updateListeners # << >>
    /\ dLog = << >>

\* ========================================= zone ids of a decode (C39)
\* zone keys of this harness: "00" is a second spelling of zone 0
AliasKeys == {"0", "00", "1"}

AliasInfos == {ZoneInfo(k, l, 5, 4) : k \in AliasKeys, l \in {15, 16}}

AliasPayloads ==
    {Payload("object", TRUE, z) :
        z \in {y \in UNION {[1..n -> AliasInfos] : n \in 0..MaxZoneEntries} :
                  DistinctKeys(y)}}
    \cup {Payload("bad_json", FALSE, NoZsts), Payload("object", FALSE, NoZsts)}

InitAlias ==
    /\ ConcurrencyAtRest
    /\ deviceState = EmptyDeviceState
    /\ dPayload \in AliasPayloads
    /\ dResult = NotCalled
    /\ updateListeners = << >>
    /\ dLog = << >>
    /\ deviceDelays = NoDelays
    /\ streak = NoStreaks
    /\ lastSuccess = NoSuccess
    /\ conn = NoConn
    /\ call = NoCall
    /\ EntityAtRest

\* the next status payload is read
AliasNextPayload ==
    /\ dResult.raised # "not called"
    /\ dPayload' \in AliasPayloads
    /\ dResult' = NotCalled
    /\ dLog' = << >>
    /\ UNCHANGED <<concurrencyVars, deviceState, updateListeners, deviceDelays,
                   streak, lastSuccess, conn, call, entityVars>>

NextAlias == DecodeCall \/ AliasNextPayload

SpecAlias == InitAlias /\ [][NextAlias]_vars

\* available_zones has no duplicate and lists exactly the keys of zones
SameZones(state) ==
    LET a == state.available_zones
    IN /\ \A i, j \in DOMAIN a : i # j => a[i] # a[j]
       /\ {a[i] : i \in DOMAIN a} = DOMAIN state.zones

\* C39 (as claimed): in every state decrypt returns or installs,
\* available_zones and zones describe the same zones: no id twice in
\* available_zones, and the ids of available_zones are exactly the keys of zones.
C39_AvailableZonesMatchZones ==
    /\ SameZones(deviceState)
    /\ dResult.raised = "none" => SameZones(dResult.value)

\* the keys "0" and "00" were decoded: zone 0 is listed twice
C39_Witness ==
    /\ dResult.raised = "none"
    /\ dResult.value.available_zones = <<0, 0>>
    /\ DOMAIN dResult.value.zones = {0}
    /\ deviceState = dResult.value

\* ---------------------------------------------------------------- C40
\* the last call was async_set_fan_mode, a BLE device was found, and the
\* name asked for is a non-empty one that fan_modes lists for the state
\* the call started from
ListedFanModeRequested ==
    /\ entCall.fn = "set_fan_mode"
    /\ fanReq.has_device
    /\ fanReq.name # ""
    /\ fanReq.name \in FanModes(deviceState, EntityZone, entCall.before)

\* C40: every non-empty fan mode name that fan_modes lists for the zone's
\* current mode and configuration is accepted by set_fan_mode: asking for
\* it, with a device at hand, sends a Change command instead of returning
\* because the value is not among the available speeds.
C40_ListedFanModeAccepted ==
    ListedFanModeRequested => entCall.sent

\* a listed name was asked for with a device at hand: one state where the
\* command went out, another where the same kind of request was dropped
C40_Witness ==
    /\ ListedFanModeRequested
    /\ ~entCall.sent
    /\ fanReq.name = "auto"
    /\ 64 \in Elements(GetAvailableFanSpeeds(deviceState, EntityZone,
                                             FanLookupMode(entCall.before)))

============================================================================
